---------------------------- MODULE Spec2Model ----------------------------
(***************************************************************************)
(* libxyzimage: reading and writing of XYZ images (src/src/xyzimage.c,     *)
(* first revision in the file, lines 1-638).  The model keeps the heap of  *)
(* XYZImage structures, the pointers the caller holds, the file the last   *)
(* xyzimage_write produced and a record of the last API call.              *)
(***************************************************************************)
EXTENDS Integers, Sequences, FiniteSets, TLC

VARIABLES
    is_big,   \* host byte order, fixed for a run
    mem,      \* heap: address -> XYZImage structure block and its pixel block
    ptrs,     \* addresses the caller was handed by alloc/open (stale ones stay)
    file,     \* what the last successful xyzimage_write handed to the sink
    last      \* the last API call: arguments, result, error and its trace

vars == <<is_big, mem, ptrs, file, last>>

(***************************************************************************)
(* Bounds of the model.  The palette of the library has 256 entries        *)
(* (XYZIMAGE_PALETTE_ENTRIES); the model keeps the palette as the library  *)
(* does, entry by entry and byte by byte, with fewer entries, so that the  *)
(* buffers of a call stay small.  Nothing below depends on the number.     *)
(***************************************************************************)
XYZIMAGE_PALETTE_ENTRIES == 8
MaxHandles == 2
MaxSmallDim == 2
MaxInflate == 64

(***************************************************************************)
(* Program constants.                                                      *)
(***************************************************************************)
XYZPRIV_CURRENT_STRUCT_VERSION == 1
XYZPRIV_HEADER_SIZE == 8
XYZIMAGE_PALETTE_SIZE == XYZIMAGE_PALETTE_ENTRIES * 3

Min(a, b) == IF a < b THEN a ELSE b

Take(s, n) == SubSeq(s, 1, Min(n, Len(s)))
Drop(s, n) == SubSeq(s, n + 1, Len(s))

(***************************************************************************)
(* uint32_t arithmetic.  A 32-bit value is the pair <<hi, lo>> of its two   *)
(* 16-bit halves, so that no step needs a number of 2^31 or more.          *)
(***************************************************************************)
\* The largest uint16_t, and the number of values of a uint16_t.
UINT16_MAX == 65535

\* XYZIMAGE_PALETTE_SIZE for the 256 palette entries of the library.
FullPaletteSize == 768

Two16 == 65536

\* The low 16 bits only, as when the product is taken in 16 bits;
\* SizeArithmetic does not hold of it.
Mul16Narrow(a, b) ==
    <<0, (((a * (b \div 256)) % 256) * 256 + a * (b % 256)) % Two16>>

\* (uint32_t)a * b for two uint16_t: a * b = a * (b / 256) * 256 + a * (b % 256),
\* and both partial products are below 2^24.
Mul16(a, b) ==
    LET p1 == a * (b \div 256)
        p0 == a * (b % 256)
        low == (p1 % 256) * 256 + p0
    IN  <<((p1 \div 256) + (low \div Two16)) % Two16, low % Two16>>

\* x + k in uint32_t for 0 <= k < 2^16: the carry out of bit 31 is dropped.
Add32(x, k) ==
    <<(x[1] + ((x[2] + k) \div Two16)) % Two16, (x[2] + k) % Two16>>

\* The number a 32-bit value below 2^31 stands for.
Value32(x) == x[1] * Two16 + x[2]

\* image->data_len = (uint32_t)width * height * multiplier, with multiplier 1
DataLen32(width, height) == Mul16(width, height)

\* (size_t)(XYZIMAGE_PALETTE_SIZE + (uint32_t)image->width * image->height),
\* for a palette of palette_size bytes
XyzSize32(palette_size, width, height) == Add32(Mul16(width, height), palette_size)

\* (uint32_t)image->width * image->height + XYZPRIV_HEADER_SIZE + XYZIMAGE_PALETTE_SIZE
Filesize32(palette_size, width, height) ==
    Add32(Add32(Mul16(width, height), XYZPRIV_HEADER_SIZE), palette_size)

(***************************************************************************)
(* Host representation of integers.                                        *)
(***************************************************************************)
\* The bytes of a uint16_t in host memory, lowest address first.
HostBytes16(big, v) ==
    IF big THEN <<v \div 256, v % 256>> ELSE <<v % 256, v \div 256>>

\* The uint16_t value of two bytes in host memory.
HostValue16(big, b) ==
    IF big THEN b[1] * 256 + b[2] ELSE b[1] + b[2] * 256

\* The first byte in memory of the uint32_t 0x01020304 (the union d).
HostFirstByte32(big) == IF big THEN 1 ELSE 4

\* A variant without the exchange of the two bytes; WireOrder does not hold
\* of it.
SwapNever(big, us) == us

\* xyzpriv_swap_when_big: *us = (*us >> 8) | (*us << 8) on a big-endian host.
\* The two halves do not overlap, so | is +; the store truncates to 16 bits.
xyzpriv_swap_when_big(big, us) ==
    LET is_big_host == HostFirstByte32(big) = 1
    IN  IF ~is_big_host THEN us
        ELSE ((us \div 256) + (us * 256)) % 65536

(***************************************************************************)
(* zlib, as libxyzimage uses it.  DEFLATE is replaced by a small codec     *)
(* with the same interface: a 4 byte stream header (method, then the       *)
(* length of the raw data in three bytes), then either run-length pairs    *)
(* <<count, value>> or the raw bytes when the pairs would be longer.       *)
(***************************************************************************)
compressBound(n) == n + (n \div 4096) + (n \div 16384) + (n \div 33554432) + 13

\* The index of the first element of x after position i that differs from
\* x[i], or n + 1 when there is none; n is the length of x.
NextDiff(x, i, n) ==
    CHOOSE k \in (i + 1)..(n + 1) :
        /\ (k = n + 1 \/ x[k] # x[i])
        /\ \A j \in (i + 1)..(k - 1) : x[j] = x[i]

RECURSIVE RlePairs(_, _, _)
RlePairs(x, i, n) ==
    IF i > n THEN <<>>
    ELSE LET c == Min(NextDiff(x, i, n) - i, 255)
         IN  <<c, x[i]>> \o RlePairs(x, i + c, n)

StreamHeader(method, n) ==
    <<method, n % 256, (n \div 256) % 256, (n \div 65536) % 256>>

\* The number of runs of equal bytes in x, of length n.
Runs(x, n) == Cardinality({i \in 1..n : i = 1 \/ x[i] # x[i - 1]})

\* compress2 with a destination of compressBound(len_in) bytes: the stream.
\* There are no fewer pairs than runs, so the pairs are only built when
\* they can be the shorter form.
Deflate(x) ==
    IF 2 * Runs(x, Len(x)) < Len(x) /\ Len(RlePairs(x, 1, Len(x))) < Len(x)
    THEN StreamHeader(1, Len(x)) \o RlePairs(x, 1, Len(x))
    ELSE StreamHeader(0, Len(x)) \o x

\* The raw bytes the run-length pairs from position j of s decode to, until
\* `need` bytes are out or the pairs end or a pair is invalid.
RECURSIVE RleDecode(_, _, _)
RleDecode(s, j, need) ==
    IF need <= 0 \/ j + 1 > Len(s) \/ s[j] = 0 THEN <<>>
    ELSE LET c == Min(s[j], need)
         IN  [t \in 1..c |-> s[j + 1]] \o RleDecode(s, j + 2, need - c)

\* uncompress(dest, &destLen = cap, source, sourceLen): the zlib result code
\* and the bytes written.  Z_BUF_ERROR when the output does not fit,
\* Z_DATA_ERROR when the stream is invalid or ends early; bytes after the
\* end of the stream are ignored.
Inflate(s, cap) ==
    IF Len(s) < 4 \/ s[1] \notin {0, 1}
    THEN [code |-> "Z_DATA_ERROR", out |-> <<>>]
    ELSE LET n    == s[2] + s[3] * 256 + s[4] * 65536
             want == Min(n, cap + 1)
             got  == IF s[1] = 0
                     THEN SubSeq(s, 5, Min(Len(s), 4 + want))
                     ELSE RleDecode(s, 5, want)
         IN  IF Len(got) > cap THEN [code |-> "Z_BUF_ERROR", out |-> <<>>]
             ELSE IF Len(got) < n THEN [code |-> "Z_DATA_ERROR", out |-> <<>>]
             ELSE [code |-> "Z_OK", out |-> got]

(***************************************************************************)
(* Values.                                                                 *)
(***************************************************************************)
\* Pointers are pairs: the kind of block and its number.
NULL == <<"null", 0>>

\* enum XYZImage_Error, by name; XYZIMAGE_ERROR_OK is the value 0.
Errors == {"OK", "IO_READ_GENERIC", "IO_READ_BAD_HEADER",
           "IO_READ_IMAGE_TOO_BIG", "IO_READ_IMAGE_TOO_SMALL",
           "IO_READ_END_OF_FILE", "IO_WRITE", "IO_COMPRESS",
           "XYZIMAGE_INVALID", "BUFFER_TOO_SMALL", "IMAGE_TOO_MANY_COLORS",
           "IMAGE_ALPHA_CHANNEL", "IMAGE_NOT_INDEXED", "POINTER_BAD",
           "OUT_OF_MEMORY", "ZLIB", "NOT_IMPLEMENTED", "FORMAT_NOT_SUPPORTED"}

\* enum XYZImage_Format; "OTHER" is any value that is neither of the two.
Formats == {"NONE", "DEFAULT", "OTHER"}

\* An uninitialised byte of a malloc'ed buffer.
Uninit == -1

Addr == {<<"heap", i>> : i \in 1..MaxHandles}

\* The pixel block of the structure at address a.
PixelsOf(a) == <<"pixels", a[2]>>

Rgb(r, g, b) == [red |-> r, green |-> g, blue |-> b]

\* memset(&img->palette, '\0', sizeof(img->palette))
ZeroPalette == [i \in 0..(XYZIMAGE_PALETTE_ENTRIES - 1) |-> Rgb(0, 0, 0)]

StructMagic == <<"L", "X", "Y", "Z">>

\* struct XYZImage.  data is NULL or the pixel block of the same slot.
NoStruct ==
    [header |-> <<"?", "?", "?", "?">>, version |-> 0, width |-> 0,
     height |-> 0, format |-> "NONE", palette |-> ZeroPalette, data_len |-> 0,
     data_len_compressed |-> 0, data |-> NULL, compress_func |-> "xyzpriv_compress_func"]

\* A heap slot: the structure block (st), its contents (s), the pixel block
\* the structure owns (dst) and its contents (pixels).
EmptySlot == [st |-> "unused", s |-> NoStruct, dst |-> "none", pixels |-> <<>>]

\* Memory of the caller that is no XYZImage: a wrong magic and a wrong version,
\* with the other fields set as a live image would have them.
ForeignPtrs == {<<"foreign", 1>>, <<"foreign", 2>>}

Foreign(p) ==
    LET base == [NoStruct EXCEPT !.width = 3, !.height = 2, !.format = "DEFAULT",
                                 !.data_len = 6, !.data_len_compressed = 20,
                                 !.data = <<"pixels", 0>>]
    IN  IF p = <<"foreign", 1>>
        THEN [base EXCEPT !.header = <<"!", "X", "Y", "Z">>,
                          !.version = XYZPRIV_CURRENT_STRUCT_VERSION]
        ELSE [base EXCEPT !.header = StructMagic, !.version = 2]

(***************************************************************************)
(* xyzimage_is_valid and what a call sees through a caller's pointer.      *)
(***************************************************************************)
\* The checks of xyzimage_is_valid on the memory a non-NULL pointer names.
xyzimage_is_valid(s) ==
    IF s.header # StructMagic THEN 0
    ELSE IF s.version # 1 THEN 0
    ELSE 1

\* The structure bytes at p (for a freed block: what free left there).
Deref(m, p) ==
    IF p = NULL THEN NoStruct
    ELSE IF p \in ForeignPtrs THEN Foreign(p) ELSE m[p].s

\* The possible verdicts of xyzimage_is_valid(p): v, and whether the call read
\* a freed block.  Reading a freed block is undefined: either verdict.
ValidOutcomes(m, p) ==
    IF p = NULL THEN {[v |-> 0, uaf |-> FALSE]}
    ELSE IF p \in ForeignPtrs \/ m[p].st = "live"
    THEN {[v |-> xyzimage_is_valid(Deref(m, p)), uaf |-> FALSE]}
    ELSE {[v |-> 0, uaf |-> TRUE], [v |-> 1, uaf |-> TRUE]}

\* The pointers a caller can pass: NULL, foreign memory, whatever it was
\* handed before (live or since released).
CallerPtrs == {NULL} \cup ForeignPtrs \cup ptrs

(***************************************************************************)
(* The record of the last call.                                            *)
(***************************************************************************)
NoCall ==
    [op |-> "none", arg |-> NULL, ret |-> NULL, val |-> 0, fmt |-> "NONE",
     err |-> "OK",
     reads |-> <<>>, writes |-> <<>>, compress |-> <<>>,
     bufcap |-> 0, delivered |-> <<>>, inflated |-> FALSE, inflate_in |-> <<>>,
     zcode |-> "none", uninit |-> FALSE, memfault |-> FALSE, uaf |-> FALSE, crashed |-> FALSE,
     allocs |-> 0, frees |-> 0, dfree |-> FALSE, released |-> {},
     width |-> 0, height |-> 0, payload |-> <<>>, steps |-> <<>>, func |-> "none",
     sizes |-> <<>>, again |-> FALSE,
     fail |-> "none", src |-> <<>>, nullfn |-> FALSE,
     pol |-> [h |-> "none", p1 |-> "none", p2 |-> "none"],
     sink |-> [failAt |-> 0, mode |-> "none"]]

Call(op, arg) == [NoCall EXCEPT !.op = op, !.arg = arg]

(***************************************************************************)
(* xyzpriv_alloc, xyzimage_alloc, xyzimage_free                            *)
(***************************************************************************)
\* A structure of another format; SingleFormat does not hold of it.
XyzprivAllocOther ==
    [header |-> <<"L", "X", "Y", "Z">>,
     version |-> XYZPRIV_CURRENT_STRUCT_VERSION,
     width |-> 0, height |-> 0,
     format |-> "OTHER",
     palette |-> ZeroPalette,
     data_len |-> 0, data_len_compressed |-> 0, data |-> NULL,
     compress_func |-> "xyzpriv_compress_func"]

\* A structure whose palette was not cleared; BlankAlloc does not hold of it.
XyzprivAllocNoMemset ==
    [header |-> <<"L", "X", "Y", "Z">>,
     version |-> XYZPRIV_CURRENT_STRUCT_VERSION,
     width |-> 0, height |-> 0,
     format |-> "DEFAULT",
     palette |-> [ZeroPalette EXCEPT ![0] = Rgb(255, 255, 255)],
     data_len |-> 0, data_len_compressed |-> 0, data |-> NULL,
     compress_func |-> "xyzpriv_compress_func"]

\* The structure xyzpriv_alloc builds.
xyzpriv_alloc ==
    [header |-> <<"L", "X", "Y", "Z">>,
     version |-> XYZPRIV_CURRENT_STRUCT_VERSION,
     width |-> 0, height |-> 0,
     format |-> "DEFAULT",
     palette |-> ZeroPalette,
     data_len |-> 0, data_len_compressed |-> 0, data |-> NULL,
     compress_func |-> "xyzpriv_compress_func"]

\* The addresses malloc can return for a structure.
FreeAddr(m) == {a \in DOMAIN m : m[a].st # "live"}

\* The address malloc returns: the blocks are interchangeable, and malloc
\* hands out the free one with the lowest number.
FirstFree(m) == CHOOSE a \in FreeAddr(m) : \A b \in FreeAddr(m) : a[2] <= b[2]

\* xyzimage_alloc(width, height, format, error).  failS and failD say whether
\* malloc of the structure and calloc of the pixels fail; malloc also fails
\* when the heap has no room.  The outcomes: ret, err, the heap, the number of
\* blocks allocated, and memfault/crashed for the write through the NULL
\* pointer that xyzpriv_alloc makes before xyzimage_alloc tests its result.
AllocOutcomes(m, width, height, format, failS, failD) ==
    IF format # "DEFAULT"
    THEN {[ret |-> NULL, err |-> "FORMAT_NOT_SUPPORTED", mem |-> m, allocs |-> 0,
           memfault |-> FALSE, crashed |-> FALSE]}
    ELSE IF failS \/ FreeAddr(m) = {}
    THEN {[ret |-> NULL, err |-> "OK", mem |-> m, allocs |-> 0,
           memfault |-> TRUE, crashed |-> TRUE],
          [ret |-> NULL, err |-> "OUT_OF_MEMORY", mem |-> m, allocs |-> 0,
           memfault |-> TRUE, crashed |-> FALSE]}
    ELSE {  LET image == [xyzpriv_alloc EXCEPT !.width = width, !.height = height,
                                              !.data_len = Value32(DataLen32(width, height))]
            IN  IF failD
                THEN [ret |-> NULL, err |-> "OUT_OF_MEMORY",
                      mem |-> [m EXCEPT ![a] = [st |-> "live",
                                                 s |-> [image EXCEPT !.data_len = 0],
                                                 dst |-> "none", pixels |-> <<>>]],
                      allocs |-> 1, memfault |-> FALSE, crashed |-> FALSE]
                ELSE [ret |-> a, err |-> "OK",
                      mem |-> [m EXCEPT ![a] = [st |-> "live",
                                                 s |-> [image EXCEPT !.data = PixelsOf(a)],
                                                 dst |-> "live",
                                                 pixels |-> [i \in 1..image.data_len |-> 0]]],
                      allocs |-> 2, memfault |-> FALSE, crashed |-> FALSE]
          : a \in {FirstFree(m)} }

\* What a read of a freed structure block finds when the block has not been
\* handed out again: the three fields xyzimage_free wrote last, and
\* indeterminate values elsewhere.
FreedStruct ==
    [NoStruct EXCEPT !.header = <<"!", "?", "?", "?">>, !.version = Uninit,
                     !.width = Uninit, !.height = Uninit]

\* The heap after the body of xyzimage_free(p) ran on a block: the magic is
\* scrubbed, the pixel block and then the structure are freed.
FreeBlock(m, p) ==
    [m EXCEPT ![p] = [st |-> "freed", s |-> FreedStruct,
                      dst |-> IF m[p].dst = "live" THEN "freed" ELSE m[p].dst,
                      pixels |-> <<>>]]

(***************************************************************************)
(* The state after construction: an empty heap, no call made yet.          *)
(***************************************************************************)
Snapshot(slot) ==
    [width |-> slot.s.width, height |-> slot.s.height,
     palette |-> slot.s.palette, pixels |-> slot.pixels]

NoFile == [has |-> FALSE, bytes |-> <<>>, snap |-> Snapshot(EmptySlot)]

Init ==
    /\ is_big \in BOOLEAN
    /\ mem = [a \in Addr |-> EmptySlot]
    /\ ptrs = {}
    /\ file = NoFile
    /\ last = NoCall

\* A call can be made while the process runs.
Running == ~last.crashed

(***************************************************************************)
(* xyzimage_alloc and xyzimage_free as the caller's operations.            *)
(***************************************************************************)
Alloc(width, height, format, failS, failD) ==
    /\ Running
    /\ \E o \in AllocOutcomes(mem, width, height, format, failS, failD) :
          /\ mem' = o.mem
          /\ ptrs' = IF o.ret = NULL THEN ptrs ELSE ptrs \cup {o.ret}
          /\ last' = [Call("alloc", NULL) EXCEPT
                         !.ret = o.ret, !.err = o.err, !.allocs = o.allocs,
                         !.memfault = o.memfault, !.crashed = o.crashed,
                         !.width = width, !.height = height, !.fmt = format,
                         !.fail = IF failS THEN "struct"
                                  ELSE IF failD THEN "data" ELSE "none"]
    /\ UNCHANGED <<is_big, file>>

\* The body of xyzimage_free once the validity test passed, in program order.
FreeSteps == <<"scrub_magic", "free_data", "free_struct", "return_1">>

\* xyzimage_free(p).  On a released block the validity test reads freed
\* memory; if it passes, free() is called on a freed block.
Free(p) ==
    /\ Running
    /\ \E o \in ValidOutcomes(mem, p) :
          IF o.v = 0
          THEN /\ last' = [Call("free", p) EXCEPT !.val = 0, !.uaf = o.uaf]
               /\ mem' = mem
          ELSE IF ~o.uaf
          THEN /\ last' = [Call("free", p) EXCEPT !.val = 1, !.frees = 2,
                                                  !.released = {p},
                                                  !.steps = FreeSteps]
               /\ mem' = FreeBlock(mem, p)
          ELSE \E crash \in BOOLEAN :
               /\ last' = [Call("free", p) EXCEPT !.val = 1, !.uaf = TRUE,
                                                  !.dfree = TRUE, !.frees = 1,
                                                  !.steps = FreeSteps,
                                                  !.crashed = crash]
               /\ mem' = mem
    /\ UNCHANGED <<is_big, ptrs, file>>

(***************************************************************************)
(* The accessors.                                                          *)
(***************************************************************************)
\* A variant without the validity test; NeutralOnInvalid does not hold of it.
GetWidthUnguarded(v, s) == s.width

xyzimage_get_width(v, s) == IF v = 0 THEN 0 ELSE s.width

xyzimage_get_height(v, s) == IF v = 0 THEN 0 ELSE s.height

xyzimage_get_format(v, s) == IF v = 0 THEN "NONE" ELSE s.format

\* The pointer returned, and *len after the call (Uninit: not written).
xyzimage_get_buffer(v, s) ==
    IF v = 0 THEN [ret |-> NULL, len |-> Uninit]
    ELSE [ret |-> s.data, len |-> s.data_len]

xyzimage_get_palette(v, s, p) ==
    IF v = 0 THEN [ret |-> NULL, err |-> "XYZIMAGE_INVALID"]
    ELSE IF s.format # "DEFAULT" THEN [ret |-> NULL, err |-> "IMAGE_NOT_INDEXED"]
    ELSE [ret |-> <<"palette", p[2]>>, err |-> "OK"]

\* (uint32_t)width * height + XYZPRIV_HEADER_SIZE + XYZIMAGE_PALETTE_SIZE
xyzimage_get_filesize(v, s) ==
    IF v = 0 THEN 0
    ELSE Value32(Filesize32(XYZIMAGE_PALETTE_SIZE, s.width, s.height))

xyzimage_get_compressed_filesize(v, s) ==
    IF v = 0 THEN 0 ELSE s.data_len_compressed + XYZPRIV_HEADER_SIZE

\* One accessor call on p with the verdict o of the validity test.
Access(op, p, o, ret, val, fmt, err) ==
    /\ last' = [Call(op, p) EXCEPT !.ret = ret, !.val = val, !.fmt = fmt,
                                   !.err = err, !.uaf = o.uaf]
    /\ UNCHANGED <<is_big, mem, ptrs, file>>

GetWidth(p) ==
    /\ Running
    /\ \E o \in ValidOutcomes(mem, p) :
          Access("get_width", p, o, NULL,
                 xyzimage_get_width(o.v, Deref(mem, p)), "NONE", "OK")

GetHeight(p) ==
    /\ Running
    /\ \E o \in ValidOutcomes(mem, p) :
          Access("get_height", p, o, NULL,
                 xyzimage_get_height(o.v, Deref(mem, p)), "NONE", "OK")

GetFormat(p) ==
    /\ Running
    /\ \E o \in ValidOutcomes(mem, p) :
          Access("get_format", p, o, NULL, 0,
                 xyzimage_get_format(o.v, Deref(mem, p)), "OK")

GetBuffer(p) ==
    /\ Running
    /\ \E o \in ValidOutcomes(mem, p) :
          LET r == xyzimage_get_buffer(o.v, Deref(mem, p))
          IN  Access("get_buffer", p, o, r.ret, r.len, "NONE", "OK")

GetPalette(p) ==
    /\ Running
    /\ \E o \in ValidOutcomes(mem, p) :
          LET r == xyzimage_get_palette(o.v, Deref(mem, p), p)
          IN  Access("get_palette", p, o, r.ret, 0, "NONE", r.err)

GetFilesize(p) ==
    /\ Running
    /\ \E o \in ValidOutcomes(mem, p) :
          Access("get_filesize", p, o, NULL,
                 xyzimage_get_filesize(o.v, Deref(mem, p)), "NONE", "OK")

GetCompressedFilesize(p) ==
    /\ Running
    /\ \E o \in ValidOutcomes(mem, p) :
          Access("get_compressed_filesize", p, o, NULL,
                 xyzimage_get_compressed_filesize(o.v, Deref(mem, p)), "NONE", "OK")

IsValid(p) ==
    /\ Running
    /\ \E o \in ValidOutcomes(mem, p) :
          Access("is_valid", p, o, NULL, o.v, "NONE", "OK")

(***************************************************************************)
(* xyzimage_set_compress_func                                              *)
(***************************************************************************)
\* The compress functions of the model: the library's own and the caller's.
\*   custom_stored  emits the raw bytes behind a header (larger than the input)
\*   custom_pad     pads the stream to the whole output capacity
\*   custom_fail    returns 0 with XYZIMAGE_ERROR_IO_COMPRESS
\*   custom_silent  returns 0 and sets no error
CustomCompress ==
    {"custom_stored", "custom_pad", "custom_fail", "custom_silent", "custom_small"}

\* A variant that installs the argument as it is, NULL included;
\* CompressorSelection does not hold of it.
SetCompressFuncAsGiven(f) == f

\* The function xyzimage_set_compress_func installs; f = "NULL" is a NULL argument.
xyzimage_set_compress_func(f) ==
    IF f = "NULL" THEN "xyzpriv_compress_func" ELSE f

SetCompressFunc(p, f) ==
    /\ Running
    /\ \E o \in ValidOutcomes(mem, p) :
          /\ last' = [Call("set_compress_func", p) EXCEPT !.uaf = o.uaf, !.func = f]
          /\ mem' = IF o.v = 0 \/ p \in ForeignPtrs \/ o.uaf THEN mem
                    ELSE [mem EXCEPT ![p].s.compress_func =
                                         xyzimage_set_compress_func(f)]
    /\ UNCHANGED <<is_big, ptrs, file>>

(***************************************************************************)
(* The caller writes through the pointers xyzimage_get_palette and         *)
(* xyzimage_get_buffer return for a live image.                            *)
(***************************************************************************)
SetPaletteEntry(p, i, c) ==
    /\ Running
    /\ p \in ptrs /\ mem[p].st = "live" /\ xyzimage_is_valid(mem[p].s) = 1
    /\ xyzimage_get_palette(1, mem[p].s, p).ret # NULL
    /\ mem[p].s.palette[i] # c
    /\ mem' = [mem EXCEPT ![p].s.palette[i] = c]
    /\ last' = Call("set_palette_entry", p)
    /\ UNCHANGED <<is_big, ptrs, file>>

\* Pixel patterns a caller fills the buffer with: the constant kind when it
\* is a byte, and x[i] = i mod 256 otherwise.
Pattern(kind, n) ==
    IF kind > 255 THEN [i \in 1..n |-> i % 256] ELSE [i \in 1..n |-> kind]

FillBuffer(p, kind) ==
    /\ Running
    /\ p \in ptrs /\ mem[p].st = "live" /\ xyzimage_is_valid(mem[p].s) = 1
    /\ LET r == xyzimage_get_buffer(1, mem[p].s)
       IN  /\ r.ret # NULL
           /\ mem[p].pixels # Pattern(kind, r.len)
           /\ mem' = [mem EXCEPT ![p].pixels = Pattern(kind, r.len)]
    /\ last' = Call("fill_buffer", p)
    /\ UNCHANGED <<is_big, ptrs, file>>

(***************************************************************************)
(* The compress functions.                                                 *)
(***************************************************************************)
\* xyzpriv_compress_func(buffer_in, len_in, buffer_out, len_out, error):
\* n is the value returned, err the error set ("none": *error not written)
\* and out the bytes copied to buffer_out.  fail injects a failing malloc
\* ("tmp") or a compress2 that does not return Z_OK ("zlib").
xyzpriv_compress_func(x, len_out, fail) ==
    LET comp_size == compressBound(Len(x))
    IN  IF comp_size > len_out
        THEN [n |-> 0, err |-> "BUFFER_TOO_SMALL", out |-> <<>>, allocs |-> 0]
        ELSE IF fail = "tmp"
        THEN [n |-> 0, err |-> "OUT_OF_MEMORY", out |-> <<>>, allocs |-> 0]
        ELSE IF fail = "zlib"
        THEN [n |-> 0, err |-> "IO_COMPRESS", out |-> <<>>, allocs |-> 1]
        ELSE LET z == Deflate(x)
             IN  [n |-> Len(z), err |-> "none", out |-> z, allocs |-> 1]

\* The size computations of xyzimage_alloc, of xyzimage_open and
\* xyzimage_write, and of xyzimage_get_filesize for an image of the given
\* width and height with the palette of 256 entries, without the buffers:
\* data_len, xyz_size and the file size.
Sizes(width, height) ==
    /\ Running
    /\ last' = [Call("sizes", NULL) EXCEPT
                   !.width = width, !.height = height,
                   !.sizes = <<DataLen32(width, height),
                               XyzSize32(FullPaletteSize, width, height),
                               Filesize32(FullPaletteSize, width, height)>>]
    /\ UNCHANGED <<is_big, mem, ptrs, file>>

\* One call xyzpriv_compress_func(x, Len(x), buffer_out, len_out, &error) with
\* error = XYZIMAGE_ERROR_OK before it and an empty buffer_out: delivered
\* holds the bytes it copied to buffer_out.
Compress(x, len_out, fail) ==
    /\ Running
    /\ LET c == xyzpriv_compress_func(x, len_out, fail)
       IN  last' = [Call("compress", NULL) EXCEPT
                       !.src = x, !.bufcap = len_out, !.fail = fail,
                       !.val = c.n, !.err = IF c.err = "none" THEN "OK" ELSE c.err,
                       !.delivered = c.out, !.allocs = c.allocs, !.frees = c.allocs]
    /\ UNCHANGED <<is_big, mem, ptrs, file>>

\* A compress function of the caller (see CustomCompress).
CustomCompressFunc(f, x, len_out) ==
    IF f = "custom_fail"
    THEN [n |-> 0, err |-> "IO_COMPRESS", out |-> <<>>, allocs |-> 0]
    ELSE IF f = "custom_small"
    THEN [n |-> 0, err |-> "BUFFER_TOO_SMALL", out |-> <<>>, allocs |-> 0]
    ELSE IF f = "custom_silent"
    THEN [n |-> 0, err |-> "none", out |-> <<>>, allocs |-> 0]
    ELSE IF f = "custom_stored"
    THEN LET z == StreamHeader(0, Len(x)) \o x
         IN  IF Len(z) > len_out
             THEN [n |-> 0, err |-> "BUFFER_TOO_SMALL", out |-> <<>>, allocs |-> 0]
             ELSE [n |-> Len(z), err |-> "none", out |-> z, allocs |-> 0]
    ELSE LET z == Deflate(x)
         IN  IF len_out <= Len(x)
             THEN [n |-> 0, err |-> "BUFFER_TOO_SMALL", out |-> <<>>, allocs |-> 0]
             ELSE [n |-> len_out, err |-> "none", allocs |-> 0,
                   out |-> z \o [i \in 1..(len_out - Len(z)) |-> 0]]

\* image->compress_func(buffer_in, len_in, buffer_out, len_out, error)
CompressCall(f, x, len_out, fail) ==
    IF f = "xyzpriv_compress_func" THEN xyzpriv_compress_func(x, len_out, fail)
    ELSE CustomCompressFunc(f, x, len_out)

(***************************************************************************)
(* The payload: palette bytes, then pixels.                                *)
(***************************************************************************)
\* A buffer with the pixels first and the palette after them; PayloadLayout
\* does not hold of it.
PayloadOfPixelsFirst(s, pixels, xyz_size) ==
    [i \in 1..xyz_size |->
        IF i <= xyz_size - XYZIMAGE_PALETTE_SIZE
        THEN pixels[i]
        ELSE LET k == i - (xyz_size - XYZIMAGE_PALETTE_SIZE) - 1
             IN  CASE k % 3 = 0 -> s.palette[k \div 3].red
                   [] k % 3 = 1 -> s.palette[k \div 3].green
                   [] OTHER -> s.palette[k \div 3].blue]

\* decompressed_xyz after the fill loop of xyzimage_write and the memcpy of
\* data_len pixel bytes, in a buffer of xyz_size bytes.
PayloadOf(s, pixels, xyz_size) ==
    [i \in 1..xyz_size |->
        IF i <= XYZIMAGE_PALETTE_SIZE
        THEN LET e == s.palette[(i - 1) \div 3]
             IN  CASE (i - 1) % 3 = 0 -> e.red
                   [] (i - 1) % 3 = 1 -> e.green
                   [] OTHER -> e.blue
        ELSE IF i - XYZIMAGE_PALETTE_SIZE <= Min(s.data_len, Len(pixels))
        THEN pixels[i - XYZIMAGE_PALETTE_SIZE]
        ELSE Uninit]

\* A variant that reads blue before red; RoundTrip does not hold of it.
PaletteFromBgr(d) ==
    [i \in 0..(XYZIMAGE_PALETTE_ENTRIES - 1) |->
        Rgb(d[i * 3 + 3], d[i * 3 + 2], d[i * 3 + 1])]

\* The palette the fill loop of xyzimage_open reads from decompressed_xyz.
PaletteFrom(d) ==
    [i \in 0..(XYZIMAGE_PALETTE_ENTRIES - 1) |->
        Rgb(d[i * 3 + 1], d[i * 3 + 2], d[i * 3 + 3])]

\* memcpy(img_buffer, decompressed_xyz + XYZIMAGE_PALETTE_SIZE, img_buffer_len)
PixelsFrom(d, img_buffer_len) ==
    [i \in 1..img_buffer_len |-> d[XYZIMAGE_PALETTE_SIZE + i]]

\* (size_t)(XYZIMAGE_PALETTE_SIZE + (uint32_t)image->width * image->height)
XyzSize(width, height) == Value32(XyzSize32(XYZIMAGE_PALETTE_SIZE, width, height))

(***************************************************************************)
(* xyzimage_write and xyzimage_fwrite                                      *)
(***************************************************************************)
\* A sink: write call number failAt (0: none) misbehaves in the given mode,
\*   short         fewer bytes than asked, XYZIMAGE_ERROR_IO_WRITE set
\*   short_silent  fewer bytes than asked, no error set
\*   full_err      all bytes, XYZIMAGE_ERROR_IO_WRITE set
\* and every other call transfers all bytes and sets no error.
SinkModes == {"short", "short_silent", "full_err"}

GoodSink == [failAt |-> 0, mode |-> "short"]

Sinks == {GoodSink} \cup [failAt : 1..4, mode : SinkModes]

\* xyzpriv_fwrite_func on an open FILE: fwrite is complete or short with an error.
FileSinks == {GoodSink} \cup [failAt : 1..4, mode : {"short"}]

\* One call of write_func: bytes transferred and error set ("none": not written).
write_func(sink, k, data) ==
    IF sink.failAt # k THEN [amount |-> Len(data), n |-> Len(data), err |-> "none", data |-> data]
    ELSE IF sink.mode = "short"
    THEN [amount |-> Len(data), n |-> Len(data) - 1, err |-> "IO_WRITE", data |-> data]
    ELSE IF sink.mode = "short_silent"
    THEN [amount |-> Len(data), n |-> Len(data) - 1, err |-> "none", data |-> data]
    ELSE [amount |-> Len(data), n |-> Len(data), err |-> "IO_WRITE", data |-> data]

\* if (res != amount || (error && *error != 0)) after a write_func call
WriteFailed(w) == w.n # w.amount \/ w.err # "none"

\* All the write_func calls made whatever they return; EmitOrder does not
\* hold of a write that goes on after a failed call.
EmitAllNoStop(sink, items, k) ==
    [j \in 1..Len(items) |-> write_func(sink, j, items[j])]

\* The four write_func calls of xyzimage_write, up to the first that fails.
RECURSIVE EmitAll(_, _, _)
EmitAll(sink, items, k) ==
    IF k > Len(items) THEN <<>>
    ELSE LET w == write_func(sink, k, items[k])
         IN  IF WriteFailed(w) THEN <<w>> ELSE <<w>> \o EmitAll(sink, items, k + 1)

RECURSIVE SinkBytes(_, _)
SinkBytes(writes, k) ==
    IF k > Len(writes) THEN <<>>
    ELSE Take(writes[k].data, writes[k].n) \o SinkBytes(writes, k + 1)

\* Another tag, "XYZ2"; BadMagic does not hold when it is the one expected.
XyzMagicOther == <<88, 89, 90, 50>>

\* The bytes "XYZ1".
XyzMagic == <<88, 89, 90, 49>>

\* The result of a call that returns before it allocates anything.
WriteEarly(m, err) ==
    [val |-> 0, err |-> err, mem |-> m, compress |-> <<>>, writes |-> <<>>,
     payload |-> <<>>, allocs |-> 0, frees |-> 0, released |-> {}]

\* The points where an allocation of xyzimage_write, or zlib, can fail.
WriteFails == {"none", "decompressed", "compressed", "realloc", "tmp", "zlib"}

\* A variant that retries after any error; RetryProtocol does not hold of it.
WriteRetriesOnError(e) == e # "OK"

\* if (e == XYZIMAGE_ERROR_BUFFER_TOO_SMALL): the capacity doubling retry
WriteRetries(e) == e = "BUFFER_TOO_SMALL"

\* What xyzimage_write does when realloc fails in the retry.
WriteReallocFailed(m, p) == FreeBlock(m, p)

\* What the trace of a call keeps of a call of the compress function f with
\* capacity cap: the value returned and the error the variable it was given
\* holds after it.
CompressTrace(f, c, cap) ==
    [f |-> f, cap |-> cap, n |-> c.n,
     err |-> IF c.err = "none" THEN "OK" ELSE c.err]

\* A variant that stores the compressed size only when all four write_func
\* calls succeeded; CompressedSize does not hold of it.
WriteEmitSizeLast(m, big, p, x, c, trace, nalloc, sink) ==
    LET ws == EmitAll(sink,
                      <<XyzMagic,
                        HostBytes16(big, xyzpriv_swap_when_big(big, m[p].s.width)),
                        HostBytes16(big, xyzpriv_swap_when_big(big, m[p].s.height)),
                        Take(c.out, c.n)>>, 1)
    IN  [val |-> IF WriteFailed(ws[Len(ws)]) THEN 0 ELSE 1,
         err |-> IF ws[Len(ws)].err = "none" THEN "OK" ELSE ws[Len(ws)].err,
         mem |-> IF WriteFailed(ws[Len(ws)]) THEN m
                 ELSE [m EXCEPT ![p].s.data_len_compressed = c.n],
         compress |-> trace, writes |-> ws, payload |-> x,
         allocs |-> nalloc, frees |-> nalloc, released |-> {}]

\* A variant that swaps image->width itself before it writes it;
\* WriteReadOnly does not hold of it.
WriteEmitSwapInPlace(m, big, p, x, c, trace, nalloc, sink) ==
    LET ws == EmitAll(sink,
                      <<XyzMagic,
                        HostBytes16(big, xyzpriv_swap_when_big(big, m[p].s.width)),
                        HostBytes16(big, xyzpriv_swap_when_big(big, m[p].s.height)),
                        Take(c.out, c.n)>>, 1)
    IN  [val |-> IF WriteFailed(ws[Len(ws)]) THEN 0 ELSE 1,
         err |-> IF ws[Len(ws)].err = "none" THEN "OK" ELSE ws[Len(ws)].err,
         mem |-> [m EXCEPT ![p].s.data_len_compressed = c.n,
                           ![p].s.width = xyzpriv_swap_when_big(big, m[p].s.width)],
         compress |-> trace, writes |-> ws, payload |-> x,
         allocs |-> nalloc, frees |-> nalloc, released |-> {}]

\* xyzimage_write from "Write the header" on; c is the result of the last
\* compress_func call.
WriteEmit(m, big, p, x, c, trace, nalloc, sink) ==
    LET ws == EmitAll(sink,
                      <<XyzMagic,
                        HostBytes16(big, xyzpriv_swap_when_big(big, m[p].s.width)),
                        HostBytes16(big, xyzpriv_swap_when_big(big, m[p].s.height)),
                        Take(c.out, c.n)>>, 1)
    IN  [val |-> IF WriteFailed(ws[Len(ws)]) THEN 0 ELSE 1,
         err |-> IF ws[Len(ws)].err = "none" THEN "OK" ELSE ws[Len(ws)].err,
         mem |-> [m EXCEPT ![p].s.data_len_compressed = c.n],
         compress |-> trace, writes |-> ws, payload |-> x,
         allocs |-> nalloc, frees |-> nalloc, released |-> {}]

\* xyzimage_write from free(decompressed_xyz) on; *error holds the error of
\* the last entry of trace.
WriteCompressed(m, big, p, x, c, trace, nalloc, sink) ==
    IF c.n = 0 \/ trace[Len(trace)].err # "OK"
    THEN [val |-> 0, err |-> trace[Len(trace)].err, mem |-> m, compress |-> trace,
          writes |-> <<>>, payload |-> x,
          allocs |-> nalloc, frees |-> nalloc, released |-> {}]
    ELSE WriteEmit(m, big, p, x, c, trace, nalloc, sink)

\* The retry of xyzimage_write with twice the capacity, after the call c1.
WriteRetry(m, big, p, x, c1, fail, sink) ==
    IF fail = "realloc"
    THEN [val |-> 0, err |-> "OUT_OF_MEMORY", mem |-> WriteReallocFailed(m, p),
          compress |-> <<CompressTrace(m[p].s.compress_func, c1, Len(x))>>,
          writes |-> <<>>, payload |-> x,
          allocs |-> 2 + c1.allocs, frees |-> 2 + c1.allocs + 2,
          released |-> IF WriteReallocFailed(m, p)[p].st = "live" THEN {} ELSE {p}]
    ELSE LET c2 == CompressCall(m[p].s.compress_func, x, Len(x) * 2, fail)
         IN  WriteCompressed(m, big, p, x, c2,
                             <<CompressTrace(m[p].s.compress_func, c1, Len(x)),
                               CompressTrace(m[p].s.compress_func, c2, Len(x) * 2)>>,
                             2 + c1.allocs + c2.allocs, sink)

\* xyzimage_write from the first compress_func call on; x is decompressed_xyz,
\* of xyz_size bytes.
WriteCompress(m, big, p, x, fail, sink) ==
    LET c1 == CompressCall(m[p].s.compress_func, x, Len(x), fail)
    IN  IF WriteRetries(CompressTrace(m[p].s.compress_func, c1, Len(x)).err)
        THEN WriteRetry(m, big, p, x, c1, fail, sink)
        ELSE WriteCompressed(m, big, p, x, c1,
                             <<CompressTrace(m[p].s.compress_func, c1, Len(x))>>,
                             2 + c1.allocs, sink)

\* xyzimage_write(image, userdata, write_func, error) with the verdict v of
\* the validity test on p.
xyzimage_write(m, big, p, v, wf_null, fail, sink) ==
    IF v = 0 THEN WriteEarly(m, "XYZIMAGE_INVALID")
    ELSE IF wf_null THEN WriteEarly(m, "POINTER_BAD")
    ELSE IF Deref(m, p).format # "DEFAULT" THEN WriteEarly(m, "FORMAT_NOT_SUPPORTED")
    ELSE IF fail = "decompressed" THEN WriteEarly(m, "OUT_OF_MEMORY")
    ELSE IF fail = "compressed"
    THEN [WriteEarly(m, "OUT_OF_MEMORY") EXCEPT !.allocs = 1, !.frees = 1]
    ELSE WriteCompress(m, big, p,
                       PayloadOf(m[p].s, m[p].pixels, XyzSize(m[p].s.width, m[p].s.height)),
                       fail, sink)

\* The file a sink holds after a write that returned 1.
FileOf(m, p, r) ==
    [has |-> TRUE, bytes |-> SinkBytes(r.writes, 1), snap |-> Snapshot(m[p])]

WriteWith(op, p, wf_null, fail, sink) ==
    /\ Running
    /\ \E o \in ValidOutcomes(mem, p) :
          LET r == xyzimage_write(mem, is_big, p, o.v, wf_null, fail, sink)
          IN  /\ mem' = r.mem
              /\ file' = IF r.val = 1 THEN FileOf(mem, p, r) ELSE file
              /\ last' = [Call(op, p) EXCEPT
                             !.val = r.val, !.err = r.err, !.uaf = o.uaf,
                             !.compress = r.compress, !.writes = r.writes,
                             !.payload = r.payload,
                             !.allocs = r.allocs, !.frees = r.frees,
                             !.released = r.released,
                             !.again = (/\ last.op \in {"write", "fwrite"}
                                        /\ last.val = 1 /\ last.arg = p),
                             !.fail = fail, !.sink = sink, !.nullfn = wf_null]
    /\ UNCHANGED <<is_big, ptrs>>

Write(p, wf_null, fail, sink) == WriteWith("write", p, wf_null, fail, sink)

\* xyzimage_fwrite(image, file, error): file = NULL is wf_null here, as both
\* end the call with XYZIMAGE_ERROR_POINTER_BAD before anything is done.
Fwrite(p, file_null, fail, sink) == WriteWith("fwrite", p, file_null, fail, sink)

(***************************************************************************)
(* xyzimage_open and xyzimage_fopen                                        *)
(***************************************************************************)
\* How a read_func call behaves on a source with the bytes rem left:
\*   file      xyzpriv_fread_func on a healthy FILE: all bytes asked for, or
\*             the rest with XYZIMAGE_ERROR_IO_READ_END_OF_FILE
\*   ioerr     xyzpriv_fread_func when fread fails: half of what the file
\*             would give, with XYZIMAGE_ERROR_IO_READ_GENERIC
\*   eager     like file, and end of file is also set when the call takes
\*             the last byte
\*   silent    one byte fewer than asked for (or the rest) and no error set
\*   endless   a stream that never ends: the bytes, then zeros, no error
\*   full_err  like file, with XYZIMAGE_ERROR_IO_READ_GENERIC set in any case
ReadPolicies == {"file", "ioerr", "eager", "silent", "endless", "full_err"}

\* The policies xyzpriv_fread_func can show.
FilePolicies == {"file", "ioerr"}

\* One call of read_func: bytes read, error set ("none": not written), the
\* bytes, and what the source has left.
read_func(rem, amount, policy) ==
    LET avail == Min(amount, Len(rem))
        n == CASE policy = "ioerr"   -> avail \div 2
               [] policy = "silent"  -> Min(amount - 1, Len(rem))
               [] policy = "endless" -> amount
               [] OTHER              -> avail
        err == CASE policy = "file"     -> IF n # amount THEN "IO_READ_END_OF_FILE" ELSE "none"
                 [] policy = "ioerr"    -> "IO_READ_GENERIC"
                 [] policy = "eager"    -> IF Len(rem) <= amount THEN "IO_READ_END_OF_FILE" ELSE "none"
                 [] policy = "full_err" -> "IO_READ_GENERIC"
                 [] OTHER               -> "none"
    IN  [amount |-> amount, n |-> n, err |-> err,
         data |-> Take(rem, n) \o [i \in 1..(n - Len(rem)) |-> 0],
         rem |-> Drop(rem, Min(n, Len(rem)))]

\* What the trace of a call keeps of a read.
ReadTrace(r) == [amount |-> r.amount, n |-> r.n, err |-> r.err]

\* if (res != amount || (error && *error != 0)) after a header read
HeaderReadFailed(r) == r.n # r.amount \/ r.err # "none"

OpenBase(m) ==
    [ret |-> NULL, err |-> "OK", mem |-> m, reads |-> <<>>, bufcap |-> 0,
     delivered |-> <<>>, inflated |-> FALSE, inflate_in |-> <<>>,
     zcode |-> "none", uninit |-> FALSE, memfault |-> FALSE, crashed |-> FALSE,
     allocs |-> 0, frees |-> 0]

\* The points where an allocation of xyzimage_open, or zlib, can fail.
OpenFails == {"none", "struct", "data", "compressed", "decompressed", "realloc", "zlib"}

\* if (e == XYZIMAGE_ERROR_OK) after the first payload read: read once more
OpenReadsAgain(r, e) == e = "OK"

\* A variant that goes on to uncompress when no read set an error; OpenCap
\* does not hold of it.
OpenReadErrorUncapped(e) ==
    IF e = "IO_READ_END_OF_FILE" \/ e = "OK" THEN "OK" ELSE e

\* if (e != XYZIMAGE_ERROR_IO_READ_END_OF_FILE): the error the call ends with
OpenReadError(e) ==
    IF e = "IO_READ_END_OF_FILE" THEN "OK"
    ELSE IF e = "OK" THEN "IO_READ_IMAGE_TOO_BIG"
    ELSE e

\* A variant that reports every failure as a truncated image; SizeMismatch
\* does not hold of it.
OpenInflateErrorSmall(code, xyz_size_out, xyz_size) ==
    IF code = "Z_OK" /\ xyz_size_out = xyz_size THEN "OK"
    ELSE "IO_READ_IMAGE_TOO_SMALL"

\* The error after uncompress returned code with xyz_size_out bytes.
OpenInflateError(code, xyz_size_out, xyz_size) ==
    IF code # "Z_OK" THEN "ZLIB"
    ELSE IF xyz_size_out # xyz_size THEN "IO_READ_IMAGE_TOO_SMALL"
    ELSE "OK"

\* The results uncompress can give on the first res bytes of compressed_xyz.
\* Bytes the reads never wrote are uninitialised: then any result.
UncompressOutcomes(input, xyz_size, fail) ==
    IF fail = "zlib" THEN {[code |-> "Z_MEM_ERROR", out |-> <<>>]}
    ELSE IF \E i \in 1..Len(input) : input[i] = Uninit
    THEN {[code |-> "Z_DATA_ERROR", out |-> <<>>],
          [code |-> "Z_BUF_ERROR", out |-> <<>>],
          [code |-> "Z_OK", out |-> [i \in 1..xyz_size |-> 0]],
          [code |-> "Z_OK", out |-> [i \in 1..(xyz_size - 1) |-> 0]]}
    ELSE {Inflate(input, xyz_size)}

\* xyzimage_open from the third header read on: the image is allocated at a
\* in heap m, rem is what the source has left.
OpenPayload(m, a, rem, pol, fail, hdr) ==
    LET s == m[a].s
        xyz_size == XyzSize(s.width, s.height)
        base == [OpenBase(m) EXCEPT !.reads = hdr]
    IN
    IF fail = "compressed"
    THEN {[base EXCEPT !.err = "OUT_OF_MEMORY", !.mem = FreeBlock(m, a),
                       !.allocs = 2, !.frees = 2]}
    ELSE IF fail = "decompressed"
    THEN {[base EXCEPT !.err = "OUT_OF_MEMORY", !.mem = FreeBlock(m, a),
                       !.allocs = 3, !.frees = 3]}
    ELSE
    LET r4 == read_func(rem, xyz_size, pol.p1)
        e1 == IF r4.err = "none" THEN "OK" ELSE r4.err
        again == OpenReadsAgain(r4, e1)
    IN
    IF again /\ fail = "realloc"
    THEN {[base EXCEPT !.err = "OUT_OF_MEMORY", !.mem = FreeBlock(m, a),
                       !.reads = hdr \o <<ReadTrace(r4)>>, !.bufcap = xyz_size,
                       !.delivered = r4.data, !.allocs = 4, !.frees = 4]}
    ELSE
    LET r5 == read_func(r4.rem, xyz_size, pol.p2)
        e  == IF again THEN (IF r5.err = "none" THEN "OK" ELSE r5.err) ELSE e1
        res == IF again THEN r4.n + r5.n ELSE r4.n
        compressed_xyz ==
            IF again
            THEN r4.data \o [i \in 1..(xyz_size - r4.n) |-> Uninit] \o r5.data
                 \o [i \in 1..(xyz_size - r5.n) |-> Uninit]
            ELSE r4.data \o [i \in 1..(xyz_size - r4.n) |-> Uninit]
        rd == [base EXCEPT
                  !.reads = hdr \o (IF again THEN <<ReadTrace(r4), ReadTrace(r5)>>
                                    ELSE <<ReadTrace(r4)>>),
                  !.bufcap = Len(compressed_xyz),
                  !.delivered = IF again THEN r4.data \o r5.data ELSE r4.data,
                  !.allocs = 4, !.frees = 2]
    IN
    IF OpenReadError(e) # "OK"
    THEN {[rd EXCEPT !.err = OpenReadError(e), !.mem = FreeBlock(m, a), !.frees = 4]}
    ELSE
    LET input == Take(compressed_xyz, res)
        m1 == [m EXCEPT ![a].s.data_len_compressed = res]
    IN  { LET err == OpenInflateError(z.code, Len(z.out), xyz_size)
              inf == [rd EXCEPT !.inflated = TRUE, !.inflate_in = input,
                                !.zcode = z.code,
                                !.uninit = \E i \in 1..Len(input) : input[i] = Uninit]
          IN  IF err # "OK"
              THEN [inf EXCEPT !.err = err, !.mem = FreeBlock(m1, a), !.frees = 4]
              ELSE [inf EXCEPT !.ret = a,
                               !.mem = [m1 EXCEPT ![a].s.palette = PaletteFrom(z.out),
                                                  ![a].pixels = PixelsFrom(z.out, s.data_len)]]
        : z \in UncompressOutcomes(input, xyz_size, fail) }

\* xyzimage_open(userdata, read_func, error) on a source with the bytes src;
\* pol gives the behaviour of the header reads (h) and of the first and the
\* second payload read (p1, p2).
xyzimage_open(m, big, src, pol, rf_null, fail) ==
    LET base == OpenBase(m)
        r1 == read_func(src, 4, pol.h)
        r2 == read_func(r1.rem, 2, pol.h)
        r3 == read_func(r2.rem, 2, pol.h)
        t1 == <<ReadTrace(r1)>>
        t2 == <<ReadTrace(r1), ReadTrace(r2)>>
        t3 == <<ReadTrace(r1), ReadTrace(r2), ReadTrace(r3)>>
        seterr(r) == IF r.err = "none" THEN "OK" ELSE r.err
        width  == xyzpriv_swap_when_big(big, HostValue16(big, r2.data))
        height == xyzpriv_swap_when_big(big, HostValue16(big, r3.data))
    IN
    IF rf_null THEN {[base EXCEPT !.err = "POINTER_BAD"]}
    ELSE IF HeaderReadFailed(r1) THEN {[base EXCEPT !.err = seterr(r1), !.reads = t1]}
    ELSE IF r1.data # XyzMagic
    THEN {[base EXCEPT !.err = "IO_READ_BAD_HEADER", !.reads = t1]}
    ELSE IF HeaderReadFailed(r2) THEN {[base EXCEPT !.err = seterr(r2), !.reads = t2]}
    ELSE IF HeaderReadFailed(r3) THEN {[base EXCEPT !.err = seterr(r3), !.reads = t3]}
    ELSE UNION {
        IF ao.ret = NULL \/ ao.err # "OK"
        THEN {[base EXCEPT !.err = ao.err, !.mem = ao.mem, !.reads = t3,
                           !.memfault = ao.memfault, !.crashed = ao.crashed,
                           !.allocs = ao.allocs]}
        ELSE OpenPayload(ao.mem, ao.ret, r3.rem, pol, fail, t3)
      : ao \in AllocOutcomes(m, width, height, "DEFAULT", fail = "struct", fail = "data") }

OpenWith(op, src, pol, rf_null, fail) ==
    /\ Running
    /\ \E o \in xyzimage_open(mem, is_big, src, pol, rf_null, fail) :
          /\ mem' = o.mem
          /\ ptrs' = IF o.ret = NULL THEN ptrs ELSE ptrs \cup {o.ret}
          /\ last' = [Call(op, NULL) EXCEPT
                         !.ret = o.ret, !.err = o.err, !.reads = o.reads,
                         !.bufcap = o.bufcap, !.delivered = o.delivered,
                         !.inflated = o.inflated, !.inflate_in = o.inflate_in,
                         !.zcode = o.zcode, !.uninit = o.uninit,
                         !.memfault = o.memfault, !.crashed = o.crashed,
                         !.allocs = o.allocs, !.frees = o.frees,
                         !.fail = fail, !.src = src, !.pol = pol,
                         !.nullfn = rf_null]
    /\ UNCHANGED <<is_big, file>>

Open(src, pol, rf_null, fail) == OpenWith("open", src, pol, rf_null, fail)

\* xyzimage_fopen(file, error): file = NULL is rf_null here, as both end the
\* call with XYZIMAGE_ERROR_POINTER_BAD before anything is read.
Fopen(src, pol, file_null, fail) == OpenWith("fopen", src, pol, file_null, fail)

(***************************************************************************)
(* Byte sources for xyzimage_open.                                         *)
(***************************************************************************)
\* An XYZ file: "XYZ1", width and height low byte first, the stream.
Container(width, height, stream) ==
    XyzMagic \o <<width % 256, width \div 256>> \o <<height % 256, height \div 256>>
    \o stream

Zeros(n) == [i \in 1..n |-> 0]

\* A 1x1 image, all bytes of the payload 0.
SmallFile == Container(1, 1, Deflate(Zeros(XYZIMAGE_PALETTE_SIZE + 1)))

\* The same with the last byte of "XYZ1" changed.
BadMagicFile == <<88, 89, 90, 50>> \o Drop(SmallFile, 4)

\* Files that end early, carry a payload of the wrong size or no valid
\* stream, or carry a stream as long as the payload or longer.
NominalFile(n) ==
    LET z0 == Deflate(Zeros(XYZIMAGE_PALETTE_SIZE))
    IN  Container(0, 0, z0 \o Zeros(n - Len(z0)))

\* Files on which every behaviour of the reads is tried.
PolicyFiles ==
    { SmallFile, BadMagicFile, Take(SmallFile, 5),
      NominalFile(XYZIMAGE_PALETTE_SIZE), NominalFile(2 * XYZIMAGE_PALETTE_SIZE) }

CraftedFiles ==
    LET ps == XYZIMAGE_PALETTE_SIZE
    IN  PolicyFiles \cup
        { <<>>, Take(SmallFile, 3), Take(SmallFile, 6),
          Take(SmallFile, 8), Take(SmallFile, Len(SmallFile) - 1),
          <<88, 89, 90, 50>>,
          Container(0, 0, Deflate(Zeros(ps))),
          Container(1, 1, Deflate(Zeros(ps))),
          Container(1, 1, Deflate(Zeros(ps + 3))),
          Container(1, 1, <<9, 9, 9, 9, 9>>),
          Container(0, 0, StreamHeader(0, ps) \o Zeros(ps)),
          NominalFile(2 * ps + 1) }

FilePol == [h |-> "file", p1 |-> "file", p2 |-> "file"]

\* One behaviour for all reads of a call.
Uniform(policy) == [h |-> policy, p1 |-> policy, p2 |-> policy]

(***************************************************************************)
(* Spec: the library in use.  Any call on any pointer the caller has, with *)
(* any allocation failing; images are small and got from xyzimage_alloc or *)
(* from xyzimage_open on a well-formed file.                               *)
(***************************************************************************)
\* No block of the heap holds an image.
NoneLive == \A a \in Addr : mem[a].st # "live"

LifeDims == {<<1, MaxSmallDim>>}

LifeCompress == {"NULL", "custom_fail"}

LifeSinks == {[failAt |-> 1, mode |-> "short"], [failAt |-> 4, mode |-> "short_silent"]}

LifeAlloc ==
    /\ NoneLive
    /\ \E d \in LifeDims, format \in Formats, fail \in {"none", "struct", "data"} :
          Alloc(d[1], d[2], format, fail = "struct", fail = "data")

LifeOpen == NoneLive /\ Open(SmallFile, FilePol, FALSE, "none")

LifeFree == \E p \in CallerPtrs : Free(p)

LifeGetWidth == \E p \in CallerPtrs : GetWidth(p)

LifeGetHeight == \E p \in CallerPtrs : GetHeight(p)

LifeGetFormat == \E p \in CallerPtrs : GetFormat(p)

LifeGetBuffer == \E p \in CallerPtrs : GetBuffer(p)

LifeGetPalette == \E p \in CallerPtrs : GetPalette(p)

LifeGetFilesize == \E p \in CallerPtrs : GetFilesize(p)

LifeGetCompressedFilesize == \E p \in CallerPtrs : GetCompressedFilesize(p)

LifeIsValid == \E p \in CallerPtrs : IsValid(p)

LifeSetCompressFunc == \E p \in CallerPtrs, f \in LifeCompress : SetCompressFunc(p, f)

LifeWrite ==
    \E p \in CallerPtrs :
        \/ \E fail \in WriteFails : Write(p, FALSE, fail, GoodSink)
        \/ \E sink \in LifeSinks : Write(p, FALSE, "none", sink)
        \/ Write(p, TRUE, "none", GoodSink)

LifeFwrite ==
    \E p \in CallerPtrs :
        \/ \E fail \in {"none", "realloc"} : Fwrite(p, FALSE, fail, GoodSink)
        \/ Fwrite(p, TRUE, "none", GoodSink)

Next ==
    \/ LifeAlloc
    \/ LifeOpen
    \/ LifeFree
    \/ LifeGetWidth
    \/ LifeGetHeight
    \/ LifeGetFormat
    \/ LifeGetBuffer
    \/ LifeGetPalette
    \/ LifeGetFilesize
    \/ LifeGetCompressedFilesize
    \/ LifeIsValid
    \/ LifeSetCompressFunc
    \/ LifeWrite
    \/ LifeFwrite

Spec == Init /\ [][Next]_vars

(***************************************************************************)
(* SpecOpen: the constructive operations.  xyzimage_alloc with any         *)
(* arguments, xyzimage_open and xyzimage_fopen on any of the crafted       *)
(* files, with any behaviour of the reads and any allocation failing.  The *)
(* caller releases what it got before it builds the next image.            *)
(***************************************************************************)
BuildDims == 0..MaxSmallDim

\* The behaviours of the header reads and of the two payload reads that are
\* tried on the files of PolicyFiles.
BuildPols ==
    {[FilePol EXCEPT !.h = hp] : hp \in ReadPolicies}
    \cup {[h |-> "file", p1 |-> a, p2 |-> b] :
             a \in {"file", "silent", "endless"}, b \in ReadPolicies}
    \cup {[FilePol EXCEPT !.p1 = a] : a \in ReadPolicies}

BuildAlloc ==
    /\ NoneLive
    /\ \E width \in BuildDims, height \in BuildDims, format \in Formats,
          fail \in {"none", "struct", "data"} :
          Alloc(width, height, format, fail = "struct", fail = "data")

BuildOpen ==
    /\ NoneLive
    /\ \/ \E src \in CraftedFiles, policy \in {"file", "eager"} :
             Open(src, Uniform(policy), FALSE, "none")
       \/ \E src \in PolicyFiles, pol \in BuildPols : Open(src, pol, FALSE, "none")
       \/ \E src \in PolicyFiles, fail \in OpenFails : Open(src, FilePol, FALSE, fail)
       \/ Open(SmallFile, FilePol, TRUE, "none")

BuildFopen ==
    /\ NoneLive
    /\ \/ \E src \in CraftedFiles, policy \in FilePolicies :
             Fopen(src, Uniform(policy), FALSE, "none")
       \/ Fopen(SmallFile, FilePol, TRUE, "none")

BuildFree == \E p \in ptrs : mem[p].st = "live" /\ Free(p)

NextOpen == BuildAlloc \/ BuildOpen \/ BuildFopen \/ BuildFree

SpecOpen == Init /\ [][NextOpen]_vars

(***************************************************************************)
(* SpecRoundTrip: one image is allocated, filled by the caller, written    *)
(* to a file, released, and the file is opened.                            *)
(***************************************************************************)
MaxPixels == 258

RtDims == {0, 1, 2, 258}

RtColours == {Rgb(10, 20, 30)}

RtEntries == {5, XYZIMAGE_PALETTE_ENTRIES - 1}

\* Fill patterns: a constant, and the index pattern.
RtPatterns == {5, 256}

RtAlloc ==
    /\ ptrs = {}
    /\ \E width \in RtDims, height \in RtDims :
          /\ width * height <= MaxPixels
          /\ Alloc(width, height, "DEFAULT", FALSE, FALSE)

RtSetPaletteEntry ==
    /\ ~file.has
    /\ \E p \in ptrs, i \in RtEntries, c \in RtColours : SetPaletteEntry(p, i, c)

RtFillBuffer ==
    /\ ~file.has
    /\ \E p \in ptrs, kind \in RtPatterns : FillBuffer(p, kind)

RtSetCompressFunc ==
    /\ ~file.has
    /\ \E p \in ptrs : mem[p].st = "live" /\ SetCompressFunc(p, "custom_stored")

RtWrite == \E p \in ptrs : mem[p].st = "live" /\ Write(p, FALSE, "none", GoodSink)

RtFwrite == \E p \in ptrs : mem[p].st = "live" /\ Fwrite(p, FALSE, "none", GoodSink)

RtFree == \E p \in ptrs : mem[p].st = "live" /\ Free(p)

RtOpen ==
    /\ file.has
    /\ NoneLive
    /\ \E policy \in {"file", "eager"} : Open(file.bytes, Uniform(policy), FALSE, "none")

RtFopen ==
    /\ file.has
    /\ NoneLive
    /\ Fopen(file.bytes, FilePol, FALSE, "none")

NextRoundTrip ==
    \/ RtAlloc
    \/ RtSetPaletteEntry
    \/ RtFillBuffer
    \/ RtSetCompressFunc
    \/ RtWrite
    \/ RtFwrite
    \/ RtFree
    \/ RtOpen
    \/ RtFopen

SpecRoundTrip == Init /\ [][NextRoundTrip]_vars

(***************************************************************************)
(* SpecTwo: up to MaxHandles images at a time, each with a compress        *)
(* function of its own, written to a sink that takes everything.           *)
(***************************************************************************)
TwoAlloc ==
    /\ FreeAddr(mem) # {}
    /\ Alloc(1, 1, "DEFAULT", FALSE, FALSE)

TwoSetCompressFunc ==
    \E p \in ptrs, f \in {"NULL", "custom_stored", "custom_pad"} :
        mem[p].st = "live" /\ SetCompressFunc(p, f)

TwoWrite == \E p \in ptrs : mem[p].st = "live" /\ Write(p, FALSE, "none", GoodSink)

TwoFree == \E p \in ptrs : mem[p].st = "live" /\ Free(p)

NextTwo ==
    \/ TwoAlloc
    \/ TwoSetCompressFunc
    \/ TwoWrite
    \/ TwoFree

SpecTwo == Init /\ [][NextTwo]_vars

(***************************************************************************)
(* SpecSize: the size computations on widths and heights from 0 to         *)
(* UINT16_MAX, and small images allocated, measured and freed.             *)
(***************************************************************************)
SzSizes ==
    \E width, height \in {0, 1, 2, 255, 256, 257, 32767, 32768,
                           UINT16_MAX - 1, UINT16_MAX} :
        Sizes(width, height)

NextSize ==
    \/ SzSizes
    \/ BuildAlloc
    \/ LifeGetFilesize
    \/ BuildFree

SpecSize == Init /\ [][NextSize]_vars

(***************************************************************************)
(* SpecCompress: xyzpriv_compress_func on every input of up to             *)
(* MaxCompressIn bytes that is all zero or counts up, with the capacities  *)
(* around the length of the input, of its stream and of compressBound.     *)
(***************************************************************************)
MaxCompressIn == 14

CoCompress ==
    \E kind \in {0, 256}, n \in 0..MaxCompressIn, fail \in {"none", "tmp", "zlib"} :
        LET x == Pattern(kind, n)
        IN  \E len_out \in { 0, Len(Deflate(x)) - 1, Len(Deflate(x)), Len(x),
                              compressBound(Len(x)) - 1, compressBound(Len(x)),
                              2 * Len(x), 2 * Len(x) + 1 } :
                len_out >= 0 /\ Compress(x, len_out, fail)

NextCompress == CoCompress

SpecCompress == Init /\ [][NextCompress]_vars

(***************************************************************************)
(* SpecWrite: one image, from xyzimage_alloc or from xyzimage_open on a    *)
(* well-formed file, written with every compress function, every          *)
(* behaviour of the sink and every failing allocation.                     *)
(***************************************************************************)
WrAlloc ==
    /\ ptrs = {}
    /\ Alloc(1, MaxSmallDim, "DEFAULT", FALSE, FALSE)

WrOpen ==
    /\ ptrs = {}
    /\ \E policy \in {"file", "eager"} : Open(SmallFile, Uniform(policy), FALSE, "none")

WrSetCompressFunc ==
    \E p \in ptrs, f \in CustomCompress \cup {"NULL"} :
        mem[p].st = "live" /\ SetCompressFunc(p, f)

WrWrite ==
    \E p \in ptrs :
        /\ mem[p].st = "live"
        /\ \/ \E sink \in Sinks : Write(p, FALSE, "none", sink)
           \/ \E fail \in WriteFails : Write(p, FALSE, fail, GoodSink)

WrFwrite ==
    \E p \in ptrs, sink \in FileSinks :
        mem[p].st = "live" /\ Fwrite(p, FALSE, "none", sink)

WrGetCompressedFilesize ==
    \E p \in ptrs : mem[p].st = "live" /\ GetCompressedFilesize(p)

WrFree == \E p \in ptrs : mem[p].st = "live" /\ Free(p)

NextWrite ==
    \/ WrAlloc
    \/ WrOpen
    \/ WrSetCompressFunc
    \/ WrWrite
    \/ WrFwrite
    \/ WrGetCompressedFilesize
    \/ WrFree

SpecWrite == Init /\ [][NextWrite]_vars

(***************************************************************************)
(* Properties of SpecRoundTrip.                                            *)
(***************************************************************************)
\* The last call was xyzimage_write or xyzimage_fwrite on a live image, with
\* a sink that takes every byte and no allocation failing.
WroteLive ==
    /\ last.op \in {"write", "fwrite"}
    /\ last.arg \in ptrs /\ mem[last.arg].st = "live"
    /\ ~last.nullfn /\ last.fail = "none" /\ last.sink = GoodSink

\* The last call was xyzimage_open or xyzimage_fopen on exactly the bytes the
\* last xyzimage_write produced, with a read function that hands over the
\* bytes of the file and signals its end, and no allocation failing.
OpenedWritten ==
    /\ last.op \in {"open", "fopen"}
    /\ file.has /\ last.src = file.bytes
    /\ ~last.nullfn /\ last.fail = "none"
    /\ last.pol \in {Uniform("file"), Uniform("eager")}

\* C1: Round trip.  Writing a live image succeeds, and opening the bytes it
\* wrote succeeds and gives an image with the same width, height, palette
\* entries and pixel bytes as the image had when it was written.
RoundTrip ==
    /\ WroteLive => last.val = 1 /\ last.err = "OK"
    /\ OpenedWritten =>
          /\ last.ret # NULL /\ last.err = "OK"
          /\ mem[last.ret].st = "live"
          /\ xyzimage_is_valid(mem[last.ret].s) = 1
          /\ Snapshot(mem[last.ret]) = file.snap

\* The 2x2 image with every pixel 5 and palette entry 5 = (10, 20, 30) was
\* written and read back.
RoundTripExample ==
    /\ OpenedWritten
    /\ last.ret # NULL
    /\ mem[last.ret].s.width = 2 /\ mem[last.ret].s.height = 2
    /\ mem[last.ret].pixels = <<5, 5, 5, 5>>
    /\ mem[last.ret].s.palette[5] = Rgb(10, 20, 30)

\* C10: Endianness.  On either host xyzimage_write hands the sink the width
\* and then the height as two bytes each, low byte first, and an image that
\* xyzimage_open returns has the width b0 + 256 * b1 of the bytes 5 and 6 of
\* the file and the height of the bytes 7 and 8.
WireOrder ==
    /\ (last.op \in {"write", "fwrite"} /\ Len(last.writes) >= 3) =>
          /\ last.writes[2].data = <<mem[last.arg].s.width % 256,
                                     mem[last.arg].s.width \div 256>>
          /\ last.writes[3].data = <<mem[last.arg].s.height % 256,
                                     mem[last.arg].s.height \div 256>>
    /\ (last.op \in {"open", "fopen"} /\ last.ret # NULL) =>
          /\ mem[last.ret].s.width = last.src[5] + 256 * last.src[6]
          /\ mem[last.ret].s.height = last.src[7] + 256 * last.src[8]

\* On a big-endian host the width 0x0102 went out as 0x02, 0x01.
WireOrderExample ==
    /\ is_big
    /\ last.op = "write" /\ Len(last.writes) >= 3
    /\ mem[last.arg].s.width = 258
    /\ last.writes[2].data = <<2, 1>>

(***************************************************************************)
(* Properties of Spec.                                                     *)
(***************************************************************************)
AccessorOps ==
    {"get_width", "get_height", "get_format", "get_buffer", "get_palette",
     "get_filesize", "get_compressed_filesize", "is_valid"}

\* What the call c returned is the neutral value of its operation.
Neutral(c) ==
    /\ c.op \in {"get_width", "get_height", "get_filesize",
                 "get_compressed_filesize", "is_valid"} => c.val = 0
    /\ c.op = "get_format" => c.fmt = "NONE"
    /\ c.op = "get_buffer" => c.ret = NULL
    /\ c.op = "get_palette" => c.ret = NULL /\ c.err = "XYZIMAGE_INVALID"
    /\ c.op \in {"write", "fwrite"} =>
          /\ c.val = 0 /\ c.err = "XYZIMAGE_INVALID"
          /\ c.compress = <<>> /\ c.writes = <<>>

\* C2: Use-after-free guard.  An accessor called on a handle whose block is
\* released returns its neutral value and does not read the released block.
UseAfterFreeGuard ==
    (last.op \in AccessorOps /\ last.arg \in ptrs /\ mem[last.arg].st = "freed")
        => Neutral(last) /\ ~last.uaf

\* C8: Handle validity.  Every handle the caller holds and has not passed to
\* xyzimage_free is a live, valid image, and no call other than
\* xyzimage_free releases a block.
HandleValidity ==
    /\ \A p \in ptrs : mem[p].st = "live" => xyzimage_is_valid(mem[p].s) = 1
    /\ last.op \in AccessorOps \cup {"set_compress_func", "write", "fwrite"}
          => last.released = {}

\* The handles that are NULL or fail the test of the magic or of the version.
InvalidPtrs == {NULL} \cup ForeignPtrs

NeutralStep ==
    (last'.op \in AccessorOps \cup {"set_compress_func", "write", "fwrite"}
     /\ last'.arg \in InvalidPtrs)
        => /\ Neutral(last')
           /\ ~last'.uaf /\ last'.allocs = 0
           /\ mem' = mem /\ ptrs' = ptrs /\ file' = file

\* C9: Neutral values on an invalid handle.  A call on NULL, or on memory
\* whose magic or version is wrong, returns the neutral value of the
\* operation; xyzimage_write and xyzimage_fwrite return 0 with
\* XYZIMAGE_ERROR_XYZIMAGE_INVALID and call neither the compress function nor
\* the sink; no such call, xyzimage_set_compress_func included, changes an
\* image or the file.
NeutralOnInvalid == [][NeutralStep]_vars

\* xyzimage_write was called on memory with the right magic and the wrong
\* version while the caller holds a live image, and was refused.
NeutralOnInvalidExample ==
    /\ last.op = "write" /\ last.arg = <<"foreign", 2>>
    /\ last.val = 0 /\ last.err = "XYZIMAGE_INVALID"
    /\ \E p \in ptrs : mem[p].st = "live"

\* The blocks a call allocated and did not free, and the blocks it freed
\* that were allocated before it: the two of each image it released.
Kept(c) == c.allocs - (c.frees - 2 * Cardinality(c.released))

\* C19: on return from xyzimage_alloc, xyzimage_open and xyzimage_write every
\* block allocated during the call has been freed, but for the structure and
\* the pixel buffer of an image the call returns; a call that returns NULL
\* leaves no structure and no pixel buffer allocated, so that every live
\* structure is one the caller has a handle of.
NoLeak ==
    (last.op \in {"alloc", "open", "fopen", "write", "fwrite"} /\ ~last.crashed) =>
        /\ Kept(last) = IF last.ret # NULL THEN 2 ELSE 0
        /\ \A a \in Addr : mem[a].st = "live" => a \in ptrs

\* The same of the calls in which the calloc of xyzimage_alloc does not fail.
NoLeakButCalloc ==
    (last.op \in {"alloc", "open", "fopen", "write", "fwrite"} /\ ~last.crashed
     /\ last.fail # "data") =>
        Kept(last) = IF last.ret # NULL THEN 2 ELSE 0

\* xyzimage_alloc returned NULL with XYZIMAGE_ERROR_OUT_OF_MEMORY and left the
\* structure allocated.
LeakedStruct ==
    /\ last.op = "alloc" /\ last.ret = NULL /\ last.err = "OUT_OF_MEMORY"
    /\ last.allocs = 1 /\ last.frees = 0
    /\ \E a \in Addr : mem[a].st = "live" /\ a \notin ptrs

\* An xyzimage_free call on a live image: the magic is scrubbed, the pixel
\* buffer is freed, the structure is freed, and 1 is returned.
ReleaseLiveStep ==
    (last'.op = "free" /\ last'.arg \in Addr /\ mem[last'.arg].st = "live") =>
        /\ last'.val = 1
        /\ last'.steps = <<"scrub_magic", "free_data", "free_struct", "return_1">>
        /\ last'.frees = 2 /\ ~last'.dfree
        /\ mem'[last'.arg].st = "freed" /\ mem'[last'.arg].dst # "live"
        /\ mem'[last'.arg].s.header[1] = "!"

\* An xyzimage_free call on NULL or on an image released before: 0 is
\* returned and nothing is freed.
ReleaseAgainStep ==
    (last'.op = "free"
     /\ (last'.arg = NULL \/ (last'.arg \in Addr /\ mem[last'.arg].st = "freed"))) =>
        /\ last'.val = 0
        /\ last'.frees = 0 /\ last'.steps = <<>>
        /\ mem' = mem

\* The part of C20 about a live image.
ReleaseLive == [][ReleaseLiveStep]_vars

\* C20: xyzimage_free on a live image scrubs the magic, frees the pixel
\* buffer, frees the structure, in this order, and returns 1; on NULL or on
\* an image released before it returns 0 and frees nothing; no call frees a
\* block that is free already.
ReleaseOrder ==
    [][ /\ ReleaseLiveStep
        /\ ReleaseAgainStep
        /\ last'.op = "free" => ~last'.dfree ]_vars

\* xyzimage_free on a released image read the freed structure, found it
\* valid and handed its blocks to free() once more.
ReleasedTwice ==
    /\ last.op = "free" /\ last.arg \in Addr /\ mem[last.arg].st = "freed"
    /\ last.uaf /\ last.val = 1 /\ last.dfree

\* The last call was made on an image that was live when it was made.
OnLive ==
    /\ last.arg \in Addr /\ ~last.uaf
    /\ (mem[last.arg].st = "live" \/ last.arg \in last.released)

\* C22: xyzimage_alloc with a format other than XYZIMAGE_FORMAT_DEFAULT
\* returns NULL with XYZIMAGE_ERROR_FORMAT_NOT_SUPPORTED and allocates
\* nothing; an image xyzimage_open returns has the format DEFAULT; every live
\* image has the format DEFAULT; xyzimage_get_palette on a live image does
\* not end with XYZIMAGE_ERROR_IMAGE_NOT_INDEXED and xyzimage_write on a live
\* image does not end with XYZIMAGE_ERROR_FORMAT_NOT_SUPPORTED.
SingleFormat ==
    /\ (last.op = "alloc" /\ last.fmt # "DEFAULT") =>
          /\ last.ret = NULL /\ last.err = "FORMAT_NOT_SUPPORTED"
          /\ last.allocs = 0
    /\ (last.op \in {"open", "fopen"} /\ last.ret # NULL) =>
          mem[last.ret].s.format = "DEFAULT"
    /\ \A a \in Addr : mem[a].st = "live" => mem[a].s.format = "DEFAULT"
    /\ (last.op = "get_palette" /\ OnLive) =>
          last.err = "OK" /\ last.ret = <<"palette", last.arg[2]>>
    /\ (last.op \in {"write", "fwrite"} /\ OnLive) =>
          last.err # "FORMAT_NOT_SUPPORTED"

\* xyzimage_alloc refused XYZIMAGE_FORMAT_NONE and left the heap empty.
SingleFormatRefused ==
    /\ last.op = "alloc" /\ last.fmt = "NONE"
    /\ last.ret = NULL /\ last.err = "FORMAT_NOT_SUPPORTED"
    /\ \A a \in Addr : mem[a].st = "unused"

(***************************************************************************)
(* Properties of SpecOpen.                                                 *)
(***************************************************************************)
Opened == last.op \in {"open", "fopen"}

\* Byte k of what a source hands over; a source that never ends goes on
\* with zeros.
ByteOf(src, k) == IF k <= Len(src) THEN src[k] ELSE 0

\* 768 + width * height (here: the palette size of the model) for the width
\* and height in bytes 5 to 8 of the source.
Nominal(src) ==
    XYZIMAGE_PALETTE_SIZE
    + (ByteOf(src, 5) + 256 * ByteOf(src, 6)) * (ByteOf(src, 7) + 256 * ByteOf(src, 8))

\* Payload read k (4 or 5 in the trace) took all the bytes asked for and set
\* no error.
FullRead(k) ==
    /\ Len(last.reads) >= k
    /\ last.reads[k].n = last.reads[k].amount /\ last.reads[k].err = "none"

\* C3: Oversized-stream cap.  xyzimage_open reads the payload in at most two
\* reads of nominal bytes each into a buffer of at most 2 * nominal bytes;
\* when both reads are complete and neither signals the end of the stream
\* the call returns NULL with XYZIMAGE_ERROR_IO_READ_IMAGE_TOO_BIG, and when a
\* payload read signals the end of the stream the call does not end with
\* that error.
OpenCap ==
    Opened =>
        /\ Len(last.reads) <= 5
        /\ \A k \in 4..Len(last.reads) : last.reads[k].amount = Nominal(last.src)
        /\ last.bufcap <= 2 * Nominal(last.src)
        /\ (FullRead(4) /\ FullRead(5)) =>
              last.ret = NULL /\ last.err = "IO_READ_IMAGE_TOO_BIG"
        /\ (\E k \in 4..Len(last.reads) : last.reads[k].err = "IO_READ_END_OF_FILE")
              => last.err # "IO_READ_IMAGE_TOO_BIG"

\* A stream of 2 * nominal bytes or more was refused after two full reads.
OpenCapExample ==
    /\ Opened /\ FullRead(4) /\ FullRead(5)
    /\ last.bufcap = 2 * Nominal(last.src)
    /\ last.err = "IO_READ_IMAGE_TOO_BIG"

\* The length the stream handed to uncompress inflates to when the output
\* has room, or -1 when the stream is not valid.
InflatedLen ==
    LET full == Inflate(last.inflate_in, MaxInflate)
    IN  IF full.code = "Z_OK" THEN Len(full.out) ELSE -1

\* uncompress was called, on bytes the source delivered, with no failure
\* injected.
Inflated == Opened /\ last.inflated /\ ~last.uninit /\ last.fail = "none"

ShortReadPolicy ==
    Opened =>
        /\ \A k \in 4..Len(last.reads) :
              (last.reads[k].n < last.reads[k].amount
               /\ last.reads[k].err # "IO_READ_END_OF_FILE")
                  => last.ret = NULL /\ Len(last.reads) = k /\ ~last.inflated
        /\ Len(last.reads) = 5 => FullRead(4)
        /\ last.inflated => ~last.uninit /\ last.inflate_in = last.delivered

\* C7: Constructive operations.  xyzimage_alloc, xyzimage_open and
\* xyzimage_fopen return a live, valid, fully built image with
\* XYZIMAGE_ERROR_OK, or NULL with another error, and write through no
\* pointer that names no block.
Constructive ==
    last.op \in {"alloc", "open", "fopen"} =>
        /\ ~last.memfault /\ ~last.crashed
        /\ \/ /\ last.ret # NULL /\ last.err = "OK"
              /\ mem[last.ret].st = "live" /\ mem[last.ret].dst = "live"
              /\ xyzimage_is_valid(mem[last.ret].s) = 1
              /\ Len(mem[last.ret].pixels)
                    = mem[last.ret].s.width * mem[last.ret].s.height
           \/ last.ret = NULL /\ last.err # "OK"

\* A step of xyzimage_write that returns 1 on a live image changes nothing
\* of the heap but that image's data_len_compressed; when the call before it
\* was a write of the same image that returned 1, the sink is handed the
\* bytes it was handed then.
WriteReadOnlyStep ==
    (/\ last'.op \in {"write", "fwrite"} /\ last'.val = 1
     /\ last'.arg \in Addr /\ mem[last'.arg].st = "live") =>
        /\ mem'[last'.arg].st = "live"
        /\ mem'[last'.arg].dst = mem[last'.arg].dst
        /\ mem'[last'.arg].pixels = mem[last'.arg].pixels
        /\ mem'[last'.arg].s =
              [mem[last'.arg].s EXCEPT
                  !.data_len_compressed = mem'[last'.arg].s.data_len_compressed]
        /\ \A a \in Addr \ {last'.arg} : mem'[a] = mem[a]
        /\ ptrs' = ptrs
        /\ last'.again =>
              /\ file.has /\ file'.has
              /\ file'.bytes = file.bytes
              /\ file'.snap = file.snap

\* C24: a successful xyzimage_write leaves the width, height, format,
\* palette, pixels and compress function of the image as they were (only
\* data_len_compressed may change), and two successful writes of an image in
\* a row hand the sink the same bytes.
WriteReadOnly == [][WriteReadOnlyStep]_vars

\* An image with a compress function of the caller was written twice in a
\* row, both times with the result 1.
WroteTwice ==
    /\ last.op \in {"write", "fwrite"} /\ last.val = 1 /\ last.again
    /\ mem[last.arg].st = "live"
    /\ mem[last.arg].s.compress_func \in CustomCompress
    /\ file.has /\ Len(file.bytes) > XYZPRIV_HEADER_SIZE

\* C23: xyzimage_open and xyzimage_fopen never end with
\* XYZIMAGE_ERROR_IO_READ_END_OF_FILE in *error, wherever the source ends.
EndOfFileInternal == Opened => last.err # "IO_READ_END_OF_FILE"

\* Once the three header reads are done, the end of the source is not the
\* error of the call: line 298 takes it for the end of the payload.
EndOfFileAfterHeader ==
    (Opened /\ Len(last.reads) > 3) => last.err # "IO_READ_END_OF_FILE"

\* The source ended inside the 8 header bytes; the read function said so and
\* the call returned NULL with that code still in *error.
EndOfFileInHeader ==
    /\ Opened /\ last.ret = NULL /\ last.err = "IO_READ_END_OF_FILE"
    /\ Len(last.src) < XYZPRIV_HEADER_SIZE /\ Len(last.reads) <= 3
    /\ last.reads[Len(last.reads)].err = "IO_READ_END_OF_FILE"
    /\ last.allocs = 0

Wrote == last.op \in {"write", "fwrite"}

\* C12: the buffer xyzimage_write passes to the compress function has
\* XYZIMAGE_PALETTE_SIZE + width * height bytes; its bytes 3i, 3i + 1 and
\* 3i + 2 (counted from 0) are the red, green and blue of palette entry i,
\* for every entry, and its byte XYZIMAGE_PALETTE_SIZE + j is pixel j.  An
\* image xyzimage_open returns has its palette from the first
\* XYZIMAGE_PALETTE_SIZE bytes of the inflated buffer and its width * height
\* pixels from the bytes after them, by the same mapping.
PayloadLayout ==
    /\ (Wrote /\ last.compress # <<>> /\ mem[last.arg].st = "live") =>
          LET s == mem[last.arg].s
              x == last.payload
          IN  /\ Len(x) = XYZIMAGE_PALETTE_SIZE + s.width * s.height
              /\ \A i \in 0..(XYZIMAGE_PALETTE_ENTRIES - 1) :
                    /\ x[3 * i + 1] = s.palette[i].red
                    /\ x[3 * i + 2] = s.palette[i].green
                    /\ x[3 * i + 3] = s.palette[i].blue
              /\ \A j \in 0..(s.width * s.height - 1) :
                    x[XYZIMAGE_PALETTE_SIZE + j + 1] = mem[last.arg].pixels[j + 1]
    /\ (last.op \in {"open", "fopen"} /\ last.ret # NULL) =>
          LET s == mem[last.ret].s
          IN  \E z \in UncompressOutcomes(last.inflate_in,
                                          XYZIMAGE_PALETTE_SIZE + s.width * s.height,
                                          last.fail) :
                /\ z.code = "Z_OK"
                /\ Len(z.out) = XYZIMAGE_PALETTE_SIZE + s.width * s.height
                /\ \A i \in 0..(XYZIMAGE_PALETTE_ENTRIES - 1) :
                      s.palette[i] =
                          Rgb(z.out[3 * i + 1], z.out[3 * i + 2], z.out[3 * i + 3])
                /\ Len(mem[last.ret].pixels) = s.width * s.height
                /\ \A j \in 0..(s.width * s.height - 1) :
                      mem[last.ret].pixels[j + 1] = z.out[XYZIMAGE_PALETTE_SIZE + j + 1]

\* The 2x2 image with palette entry 5 = (10, 20, 30) and the pixels 1, 2, 3, 4
\* went to the compress function as palette bytes, then pixels.
PayloadLayoutExample ==
    /\ Wrote /\ last.val = 1
    /\ mem[last.arg].s.width = 2 /\ mem[last.arg].s.height = 2
    /\ mem[last.arg].pixels = <<1, 2, 3, 4>>
    /\ mem[last.arg].s.palette[5] = Rgb(10, 20, 30)
    /\ Len(last.payload) = XYZIMAGE_PALETTE_SIZE + 4
    /\ last.payload[16] = 10 /\ last.payload[17] = 20 /\ last.payload[18] = 30
    /\ Drop(last.payload, XYZIMAGE_PALETTE_SIZE) = <<1, 2, 3, 4>>

\* C15: an xyzimage_alloc(w, h, XYZIMAGE_FORMAT_DEFAULT) that returns a handle
\* returns a valid one with width w, height h and the format DEFAULT, every
\* palette entry (0, 0, 0), a pixel buffer of w * h bytes that are all zero,
\* and xyzpriv_compress_func, the DEFLATE compressor, as its compress function.
BlankAlloc ==
    (last.op = "alloc" /\ last.ret # NULL) =>
        LET slot == mem[last.ret]
        IN  /\ last.fmt = "DEFAULT"
            /\ slot.st = "live"
            /\ xyzimage_is_valid(slot.s) = 1
            /\ xyzimage_get_width(1, slot.s) = last.width
            /\ xyzimage_get_height(1, slot.s) = last.height
            /\ xyzimage_get_format(1, slot.s) = "DEFAULT"
            /\ \A i \in 0..(XYZIMAGE_PALETTE_ENTRIES - 1) :
                  slot.s.palette[i] = Rgb(0, 0, 0)
            /\ slot.s.data = PixelsOf(last.ret) /\ slot.dst = "live"
            /\ slot.s.data_len = last.width * last.height
            /\ slot.pixels = [j \in 1..(last.width * last.height) |-> 0]
            /\ slot.s.compress_func = "xyzpriv_compress_func"

\* xyzimage_alloc(2, 1, XYZIMAGE_FORMAT_DEFAULT) returned a handle with two
\* zero pixels.
BlankAllocExample ==
    /\ last.op = "alloc" /\ last.ret # NULL
    /\ last.width = 2 /\ last.height = 1
    /\ mem[last.ret].pixels = <<0, 0>>

(***************************************************************************)
(* Properties of SpecTwo.                                                  *)
(***************************************************************************)
\* What one step does to the compress functions of the images.
CompressorSelectionStep ==
    /\ \A p \in Addr :
          (mem[p].st = "live" /\ mem'[p].st = "live") =>
              IF last'.op = "set_compress_func" /\ last'.arg = p
              THEN mem'[p].s.compress_func =
                       (IF last'.func = "NULL" THEN "xyzpriv_compress_func"
                        ELSE last'.func)
              ELSE mem'[p].s.compress_func = mem[p].s.compress_func
    /\ \A p \in Addr :
          (mem[p].st # "live" /\ mem'[p].st = "live") =>
              mem'[p].s.compress_func = "xyzpriv_compress_func"
    /\ last'.op \in {"write", "fwrite"} =>
          /\ mem[last'.arg].st = "live" => last'.compress # <<>>
          /\ \A k \in 1..Len(last'.compress) :
                last'.compress[k].f = mem[last'.arg].s.compress_func

\* C16: the compress function of a live image is xyzpriv_compress_func from
\* its allocation on, becomes the function given (xyzpriv_compress_func for
\* NULL) by an xyzimage_set_compress_func call on that image, and is left as
\* it is by every other call, calls on other images and writes included; every
\* compress call of an xyzimage_write is a call of the compress function of
\* the image written.
CompressorSelection == [][CompressorSelectionStep]_vars

\* Two live images, one with a compress function of the caller that it was
\* written with before, and the other just written with xyzpriv_compress_func.
CompressorSelectionExample ==
    /\ Wrote /\ last.val = 1
    /\ last.compress[1].f = "xyzpriv_compress_func"
    /\ \E q \in ptrs :
          /\ q # last.arg /\ mem[q].st = "live"
          /\ mem[q].s.compress_func = "custom_stored"
          /\ mem[q].s.data_len_compressed > 0

(***************************************************************************)
(* Properties of SpecSize.                                                 *)
(***************************************************************************)
\* The remainder modulo m of the number a 32-bit value stands for.
Residue32(x, m) == ((x[1] % m) * (Two16 % m) + x[2]) % m

\* The remainder modulo m of width * height + k.
ExactResidue(width, height, k, m) ==
    ((((width % m) * (height % m)) % m) + k) % m

\* x is a 32-bit value and stands for width * height + k: the two numbers
\* are below 32768 * 32767 * 32765 and leave the same remainder modulo each
\* of these three numbers, which have no common factor.
Exactly(x, width, height, k) ==
    /\ x[1] \in 0..UINT16_MAX /\ x[2] \in 0..UINT16_MAX
    /\ \A m \in {32768, 32767, 32765} :
          Residue32(x, m) = ExactResidue(width, height, k, m)

\* C21: for every width and height of 16 bits the pixel buffer length of
\* xyzimage_alloc is width * height, the nominal size of xyzimage_open and
\* xyzimage_write is 768 + width * height and xyzimage_get_filesize is
\* width * height + 768 + 8, with no wraparound in uint32_t; an image that
\* xyzimage_alloc returns has a pixel buffer of width * height bytes, every
\* live image has a palette of XYZIMAGE_PALETTE_SIZE bytes, and
\* xyzimage_get_filesize of a live image returns
\* width * height + XYZIMAGE_PALETTE_SIZE + 8.
SizeArithmetic ==
    /\ last.op = "sizes" =>
          /\ Exactly(last.sizes[1], last.width, last.height, 0)
          /\ Exactly(last.sizes[2], last.width, last.height, FullPaletteSize)
          /\ Exactly(last.sizes[3], last.width, last.height, FullPaletteSize + 8)
    /\ (last.op = "alloc" /\ last.ret # NULL) =>
          /\ mem[last.ret].s.data_len = last.width * last.height
          /\ Len(mem[last.ret].pixels) = last.width * last.height
    /\ \A p \in ptrs :
          mem[p].st = "live" =>
              3 * Cardinality(DOMAIN mem[p].s.palette) = XYZIMAGE_PALETTE_SIZE
    /\ (last.op = "get_filesize" /\ last.arg \in ptrs /\ mem[last.arg].st = "live") =>
          last.val = mem[last.arg].s.width * mem[last.arg].s.height
                     + XYZIMAGE_PALETTE_SIZE + 8

\* 65535 * 65535 = 65534 * 65536 + 1: the largest image, whose file size
\* 65534 * 65536 + 777 is still below 2^32.
SizeArithmeticLargest ==
    /\ last.op = "sizes"
    /\ last.width = UINT16_MAX /\ last.height = UINT16_MAX
    /\ last.sizes = << <<65534, 1>>, <<65534, 769>>, <<65534, 777>> >>

(***************************************************************************)
(* Properties of SpecCompress.                                             *)
(***************************************************************************)
\* C13: a call of xyzpriv_compress_func returns n > 0 with n no more than the
\* capacity after copying exactly the n bytes of the compressed stream to the
\* output, or returns 0 with an error and copies nothing; the error is
\* XYZIMAGE_ERROR_BUFFER_TOO_SMALL exactly when the compressed stream is
\* longer than the capacity, so that the first call of an encode, whose
\* capacity is the length of the input, does not report it when the stream
\* is shorter than the input.
CompressContract ==
    last.op = "compress" =>
        /\ last.val > 0 =>
              /\ last.val <= last.bufcap
              /\ last.err = "OK"
              /\ last.delivered = Deflate(last.src)
              /\ Len(last.delivered) = last.val
        /\ last.val = 0 => last.err # "OK" /\ last.delivered = <<>>
        /\ last.err = "BUFFER_TOO_SMALL" <=> Len(Deflate(last.src)) > last.bufcap
        /\ (last.bufcap = Len(last.src) /\ Len(Deflate(last.src)) < Len(last.src))
              => last.err # "BUFFER_TOO_SMALL"

\* What the function does instead: it reports XYZIMAGE_ERROR_BUFFER_TOO_SMALL
\* exactly when compressBound of the input length exceeds the capacity, which
\* is so whenever the capacity is the length of the input.
CompressBoundRule ==
    last.op = "compress" =>
        /\ last.val > 0 =>
              /\ last.val <= last.bufcap
              /\ last.err = "OK"
              /\ last.delivered = Deflate(last.src)
              /\ Len(last.delivered) = last.val
        /\ last.val = 0 => last.err # "OK" /\ last.delivered = <<>>
        /\ last.err = "BUFFER_TOO_SMALL" <=> compressBound(Len(last.src)) > last.bufcap
        /\ last.bufcap = Len(last.src) => last.err = "BUFFER_TOO_SMALL"

\* Fourteen zero bytes, whose stream has six bytes, and a capacity of
\* fourteen: the stream fits and XYZIMAGE_ERROR_BUFFER_TOO_SMALL is reported.
CompressBoundExample ==
    /\ last.op = "compress" /\ last.src = Zeros(14) /\ last.bufcap = 14
    /\ Len(Deflate(last.src)) = 6
    /\ last.val = 0 /\ last.err = "BUFFER_TOO_SMALL"

(***************************************************************************)
(* Properties of SpecWrite.                                                *)
(***************************************************************************)
\* The last compress_func call of the last xyzimage_write.
LastCompress == last.compress[Len(last.compress)]

\* The two bytes of a 16-bit value in the file, low byte first.
Wire16(v) == <<v % 256, v \div 256>>

\* C11: a write that returns 1 made exactly four write_func calls, each
\* transferring all it was given with no error: the bytes "XYZ1", the two
\* bytes of the width, the two bytes of the height, and the compressed_size
\* bytes the compress function produced.  A write_func call that transfers
\* fewer bytes than requested or sets an error is the last call made, and the
\* write returns 0.
EmitOrder ==
    Wrote =>
        /\ Len(last.writes) <= 4
        /\ last.val = 1 =>
              /\ Len(last.writes) = 4
              /\ \A k \in 1..4 : /\ last.writes[k].n = last.writes[k].amount
                                 /\ last.writes[k].amount = Len(last.writes[k].data)
                                 /\ last.writes[k].err = "none"
              /\ last.writes[1].data = <<88, 89, 90, 49>>
              /\ last.writes[2].data = Wire16(mem[last.arg].s.width)
              /\ last.writes[3].data = Wire16(mem[last.arg].s.height)
              /\ last.writes[4].amount = LastCompress.n
              /\ last.writes[4].data =
                     Take(CompressCall(LastCompress.f, last.payload,
                                       LastCompress.cap, last.fail).out,
                          LastCompress.n)
        /\ \A k \in 1..Len(last.writes) :
              (last.writes[k].n # last.writes[k].amount \/ last.writes[k].err # "none")
                  => last.val = 0 /\ k = Len(last.writes)

\* A write that returned 1 after its four write_func calls.
EmitOrderExample ==
    /\ Wrote /\ last.val = 1 /\ Len(last.writes) = 4
    /\ last.writes[4].amount = LastCompress.n

\* A write cut off by the third write_func call, which came up short without
\* setting an error.
EmitOrderCutOff ==
    /\ Wrote /\ last.val = 0 /\ Len(last.writes) = 3
    /\ last.writes[3].n < last.writes[3].amount /\ last.writes[3].err = "none"

\* C14: a write returns 1 only after four write_func calls that each
\* transferred all they were given with no error, and a write that returns 0
\* leaves an error other than XYZIMAGE_ERROR_OK in *error, whatever the
\* compress function and the sink do.
WriteResultChannel ==
    Wrote =>
        /\ last.val = 1 =>
              /\ Len(last.writes) = 4
              /\ \A k \in 1..4 : /\ last.writes[k].n = last.writes[k].amount
                                 /\ last.writes[k].err = "none"
        /\ last.val = 0 => last.err # "OK"

\* A sink that takes three of the four bytes of "XYZ1" and sets no error: the
\* write returns 0 and *error is XYZIMAGE_ERROR_OK.
WriteResultSilent ==
    /\ Wrote /\ last.val = 0 /\ last.err = "OK"
    /\ Len(last.writes) = 1 /\ last.writes[1].n = 3

\* What xyzimage_get_compressed_filesize(p) returns on the heap m.
CompressedFilesize(m, p) ==
    xyzimage_get_compressed_filesize(xyzimage_is_valid(m[p].s), m[p].s)

\* The bytes transferred by the calls of a trace of reads or of writes.
RECURSIVE Transferred(_, _)
Transferred(trace, k) ==
    IF k > Len(trace) THEN 0 ELSE trace[k].n + Transferred(trace, k + 1)

\* After an open that returned an image, and after a write that returned 1.
CompressedSizeOnSuccess ==
    /\ (last'.op \in {"open", "fopen"} /\ last'.ret # NULL) =>
          /\ CompressedFilesize(mem', last'.ret) = Transferred(last'.reads, 1)
          /\ CompressedFilesize(mem', last'.ret) =
                 XYZPRIV_HEADER_SIZE + Len(last'.delivered)
    /\ (last'.op \in {"write", "fwrite"} /\ last'.val = 1) =>
          /\ CompressedFilesize(mem', last'.arg) = Transferred(last'.writes, 1)
          /\ CompressedFilesize(mem', last'.arg) =
                 XYZPRIV_HEADER_SIZE + last'.compress[Len(last'.compress)].n

\* A write that returned 0 and left the image live.
WriteFailedStep ==
    /\ last'.op \in {"write", "fwrite"} /\ last'.val = 0
    /\ mem[last'.arg].st = "live" /\ mem'[last'.arg].st = "live"

\* C17 as stated: after an open that returns an image
\* xyzimage_get_compressed_filesize is the number of bytes read from the
\* source, the 8 of the header and the payload bytes delivered; after a write
\* that returns 1 it is the number of bytes handed to the sink, 8 and the
\* compressed size; a write that returns 0 leaves it as it was.
CompressedSizeKept ==
    [][ /\ CompressedSizeOnSuccess
        /\ WriteFailedStep =>
              CompressedFilesize(mem', last'.arg) = CompressedFilesize(mem, last'.arg)
      ]_vars

\* C17: after an open that returns an image xyzimage_get_compressed_filesize
\* is the number of bytes read from the source, and after a write that
\* returns 1 the number of bytes handed to the sink.  A write that returns 0
\* before its first write_func call leaves the value as it was; one that
\* returns 0 after a write_func call leaves it at 8 and the compressed size
\* of that write.
CompressedSize ==
    [][ /\ CompressedSizeOnSuccess
        /\ WriteFailedStep =>
              IF last'.writes = <<>>
              THEN CompressedFilesize(mem', last'.arg) = CompressedFilesize(mem, last'.arg)
              ELSE CompressedFilesize(mem', last'.arg) =
                       XYZPRIV_HEADER_SIZE + last'.compress[Len(last'.compress)].n
      ]_vars

\* An image opened from a file with a stream of 6 bytes and then given a
\* compress function that stores: a write that failed in its second write_func
\* call left the size at 8 and the 4 + nominal bytes of the stored stream.
CompressedSizeAfterFailure ==
    /\ Wrote /\ last.val = 0 /\ Len(last.writes) = 2
    /\ mem[last.arg].st = "live"
    /\ mem[last.arg].s.width = 1 /\ mem[last.arg].s.height = 1
    /\ LastCompress.f = "custom_stored"
    /\ CompressedFilesize(mem, last.arg) =
          XYZPRIV_HEADER_SIZE + 4 + XYZIMAGE_PALETTE_SIZE + 1

\* A compress_func call that did not succeed: it returned 0 or left an error.
CompressFailed(c) == c.n = 0 \/ c.err # "OK"

\* What every write that reached its first compress_func call does: the first
\* call has the capacity nominal, a second call follows only a first call
\* that reported XYZIMAGE_ERROR_BUFFER_TOO_SMALL and has the capacity
\* 2 * nominal, there is no third call, another error of the first call or a
\* failure of the second call is the error of a write that returns 0, and a
\* write whose compression did not succeed makes no write_func call.
RetryCommon ==
    LET tr == last.compress
        nominal == Len(last.payload)
    IN  /\ mem[last.arg].st = "live" =>
              nominal = XYZIMAGE_PALETTE_SIZE
                        + mem[last.arg].s.width * mem[last.arg].s.height
        /\ tr[1].cap = nominal
        /\ Len(tr) <= 2
        /\ Len(tr) = 2 => tr[1].err = "BUFFER_TOO_SMALL" /\ tr[2].cap = 2 * nominal
        /\ tr[1].err \notin {"OK", "BUFFER_TOO_SMALL"} =>
              last.val = 0 /\ last.err = tr[1].err
        /\ (Len(tr) = 2 /\ CompressFailed(tr[2])) =>
              last.val = 0 /\ last.err = tr[2].err
        /\ CompressFailed(tr[Len(tr)]) => last.val = 0 /\ last.writes = <<>>

\* C18 as stated: the first compress_func call of a write has the capacity
\* nominal; there is a second call, with the capacity 2 * nominal, if and only
\* if the first reported XYZIMAGE_ERROR_BUFFER_TOO_SMALL, and never a third;
\* another error of the first call or a failure of the second makes the write
\* return 0 with that error, and no write_func call is made when compression
\* did not succeed.
RetryProtocolAlways ==
    (Wrote /\ last.compress # <<>>) =>
        /\ RetryCommon
        /\ last.compress[1].err = "BUFFER_TOO_SMALL" => Len(last.compress) = 2

\* C18: as above, but the second call is made only once realloc has given
\* the buffer of 2 * nominal bytes: when it fails there is no second call, and
\* the write returns 0 with XYZIMAGE_ERROR_OUT_OF_MEMORY and no write_func call.
RetryProtocol ==
    (Wrote /\ last.compress # <<>>) =>
        /\ RetryCommon
        /\ last.compress[1].err = "BUFFER_TOO_SMALL" =>
              IF last.fail = "realloc"
              THEN /\ Len(last.compress) = 1
                   /\ last.val = 0 /\ last.err = "OUT_OF_MEMORY"
                   /\ last.writes = <<>>
              ELSE Len(last.compress) = 2

\* realloc failed after a first call that reported
\* XYZIMAGE_ERROR_BUFFER_TOO_SMALL: one compress_func call and the error
\* XYZIMAGE_ERROR_OUT_OF_MEMORY.
RetryWithoutBuffer ==
    /\ Wrote /\ last.fail = "realloc"
    /\ Len(last.compress) = 1 /\ last.compress[1].err = "BUFFER_TOO_SMALL"
    /\ last.val = 0 /\ last.err = "OUT_OF_MEMORY"

\* A compress function that reports XYZIMAGE_ERROR_BUFFER_TOO_SMALL whatever
\* the capacity: two calls, and the write returns 0 with that error.
RetryTwice ==
    /\ Wrote /\ Len(last.compress) = 2
    /\ last.compress[2].err = "BUFFER_TOO_SMALL"
    /\ last.val = 0 /\ last.err = "BUFFER_TOO_SMALL" /\ last.writes = <<>>

=============================================================================
